---- MODULE Spec2Model ----
(***************************************************************************)
(* State-machine model of src/src/App.jsx: the five taxonomy loads, the    *)
(* Category -> Bloom level -> Verb cascade (two React effects), and the    *)
(* chat / analyze / generate request flows of the App component.           *)
(*                                                                         *)
(* React specifics the model keeps:                                        *)
(*  - a handler runs to its first await as one step; every continuation    *)
(*    after an await is its own step;                                      *)
(*  - useEffect callbacks run after the commit, with the values of that    *)
(*    render, when their dependencies differ from the last run; array      *)
(*    dependencies are compared by identity, so every setXxx(array) counts *)
(*    as a change (ver counts the writes of each repository);              *)
(*  - passive effects are flushed before the next discrete user event.     *)
(* The active tab only decides which controls are on screen; switching it  *)
(* is always possible and changes nothing else, so it is not a variable.   *)
(***************************************************************************)
EXTENDS Integers, Sequences, FiniteSets, TLC

\* ---------------------------------------------------------------- bounds
MaxReloads == 1     \* changes of API_BASE_URL in one behaviour
MaxMsgs == 4        \* length of the message history
MaxInflight == 3    \* write-path requests in flight at once
MaxGenMsgs == 3     \* generateILOs is invoked while the history is shorter
MaxHistory == 12    \* length of the history of a long conversation
MaxLoadMsgs == 3    \* submits while the lists load are made while the history is shorter
MaxTranslations == 2  \* length of an entity's translation array

\* ------------------------------------------------------------- constants
Null == 0           \* null / unset id (ids are tested by truthiness)

Repos == {"subjects", "gradeLevels", "iloCategories", "iloPatterns", "bloomLevels"}

\* ---------------------------------------------------- backend test data
\* What the backend at base address b holds; ids differ between backends.
SubjectsOf(b) == << [id |-> 10 * b + 1, name |-> "s1"], [id |-> 10 * b + 2, name |-> "s2"] >>

GradeLevelsOf(b) == << [id |-> 10 * b + 1, name |-> "g1"], [id |-> 10 * b + 2, name |-> "g2"] >>

CategoriesOf(b) ==
  << [id |-> 10 * b + 1, name |-> "c1", show_bloom_taxonomy |-> TRUE,  require_bloom_taxonomy |-> TRUE],
     [id |-> 10 * b + 2, name |-> "c2", show_bloom_taxonomy |-> TRUE,  require_bloom_taxonomy |-> FALSE],
     [id |-> 10 * b + 3, name |-> "c3", show_bloom_taxonomy |-> FALSE, require_bloom_taxonomy |-> FALSE],
     [id |-> 10 * b + 4, name |-> "c4", show_bloom_taxonomy |-> FALSE, require_bloom_taxonomy |-> TRUE] >>

PatternsOf(b) == << [id |-> 10 * b + 1, statement |-> "p1", type |-> 10 * b + 1] >>

BloomLevelsOf(b) ==
  << [id |-> 10 * b + 1, name |-> "b1",
      bloom_taxonomy_verbs |-> << [id |-> 10 * b + 1, name |-> "v1"], [id |-> 10 * b + 2, name |-> "v2"] >>],
     [id |-> 10 * b + 2, name |-> "b2",
      bloom_taxonomy_verbs |-> << [id |-> 10 * b + 3, name |-> "v3"] >>],
     [id |-> 10 * b + 3, name |-> "b3", bloom_taxonomy_verbs |-> << >>] >>

\* Backends whose entities carry translations. A translation is
\* { lang_code, name or statement, updated_at }; updated_at 0 stands for a
\* translation without the field (the code reads it as `updated_at || 0`),
\* and the text of the translation at position i is "" or the i-th label.
\* The lang_code "fr" is outside the order the resolvers try.
\* The translations an array can hold at one position, before the text is
\* labelled: dates vary for the locale every call site asks for.
TranslationEntries ==
  [i \in 1..6 |-> [lang_code |-> "zh_HK", hasText |-> i > 3, updated_at |-> (i - 1) % 3]]
  \o [i \in 1..6 |-> [lang_code |-> << "en_US", "zh_CN", "fr" >>[((i - 1) \div 2) + 1], hasText |-> (i % 2) = 0,
                      updated_at |-> 0]]

RECURSIVE TranslationArraysOfLen(_)
TranslationArraysOfLen(n) ==
  IF n = 0 THEN << << >> >>
  ELSE LET shorter == TranslationArraysOfLen(n - 1)
           m == Len(TranslationEntries)
       IN [k \in 1..(Len(shorter) * m) |->
             LET e == TranslationEntries[((k - 1) % m) + 1]
             IN Append(shorter[((k - 1) \div m) + 1],
                       [lang_code |-> e.lang_code,
                        text |-> IF e.hasText THEN << "t1", "t2", "t3" >>[n] ELSE "",
                        updated_at |-> e.updated_at])]

RECURSIVE TranslationArraysUpTo(_)
TranslationArraysUpTo(n) ==
  IF n = 0 THEN TranslationArraysOfLen(0)
  ELSE TranslationArraysUpTo(n - 1) \o TranslationArraysOfLen(n)

\* The entities the translated backends serve: with or without a
\* translation array, with or without a text of their own.
TranslatedEntities ==
  LET arrays == TranslationArraysUpTo(MaxTranslations)
  IN << [own |-> "", present |-> FALSE, entries |-> << >>],
        [own |-> "own", present |-> FALSE, entries |-> << >>] >>
     \o [k \in 1..(2 * Len(arrays)) |->
           [own |-> IF (k % 2) = 0 THEN "own" ELSE "", present |-> TRUE,
            entries |-> arrays[(k + 1) \div 2]]]

TranslatedBackends == (MaxReloads + 1)..(MaxReloads + Len(TranslatedEntities))

NameTranslations(c) ==
  [i \in 1..Len(c.entries) |->
     [lang_code |-> c.entries[i].lang_code, name |-> c.entries[i].text,
      updated_at |-> c.entries[i].updated_at]]

StatementTranslations(c) ==
  [i \in 1..Len(c.entries) |->
     [lang_code |-> c.entries[i].lang_code, statement |-> c.entries[i].text,
      updated_at |-> c.entries[i].updated_at]]

TranslatedSubjectsOf(b) ==
  LET c == TranslatedEntities[b - MaxReloads]
  IN IF c.present
       THEN << [id |-> 1, name |-> c.own, translation |-> NameTranslations(c)] >>
       ELSE << [id |-> 1, name |-> c.own] >>

TranslatedCategoriesOf(b) ==
  LET c == TranslatedEntities[b - MaxReloads]
  IN IF c.present
       THEN << [id |-> 1, name |-> c.own, show_bloom_taxonomy |-> TRUE,
                require_bloom_taxonomy |-> TRUE, translation |-> NameTranslations(c)] >>
       ELSE << [id |-> 1, name |-> c.own, show_bloom_taxonomy |-> TRUE,
                require_bloom_taxonomy |-> TRUE] >>

TranslatedPatternsOf(b) ==
  LET c == TranslatedEntities[b - MaxReloads]
  IN IF c.present
       THEN << [id |-> 1, statement |-> c.own, type |-> 1,
                translation |-> StatementTranslations(c)] >>
       ELSE << [id |-> 1, statement |-> c.own, type |-> 1] >>

TranslatedBloomLevelsOf(b) ==
  LET c == TranslatedEntities[b - MaxReloads]
  IN IF c.present
       THEN << [id |-> 1, name |-> c.own, translation |-> NameTranslations(c),
                bloom_taxonomy_verbs |->
                  << [id |-> 1, name |-> c.own, translation |-> NameTranslations(c)] >>] >>
       ELSE << [id |-> 1, name |-> c.own,
                bloom_taxonomy_verbs |-> << [id |-> 1, name |-> c.own] >>] >>

\* A base address below 0 is a second address of the backend at 0: it
\* serves the same lists.
Database(r, b) ==
  LET c == IF b < 0 THEN 0 ELSE b IN
  CASE r = "subjects"      -> IF b \in TranslatedBackends THEN TranslatedSubjectsOf(b)
                              ELSE SubjectsOf(c)
    [] r = "gradeLevels"   -> IF b \in TranslatedBackends THEN TranslatedSubjectsOf(b)
                              ELSE GradeLevelsOf(c)
    [] r = "iloCategories" -> IF b \in TranslatedBackends THEN TranslatedCategoriesOf(b)
                              ELSE CategoriesOf(c)
    [] r = "iloPatterns"   -> IF b \in TranslatedBackends THEN TranslatedPatternsOf(b)
                              ELSE PatternsOf(c)
    [] r = "bloomLevels"   -> IF b \in TranslatedBackends THEN TranslatedBloomLevelsOf(b)
                              ELSE BloomLevelsOf(c)

\* The answers a list endpoint can give: status ok or not, and a body that
\* decodes to an array, to an object with error, to another object, or not
\* at all.
ListResponses(r, b) ==
  { [ok |-> o, kind |-> "array", data |-> d] : o \in BOOLEAN, d \in {<< >>, Database(r, b)} }
  \cup { [ok |-> o, kind |-> k, data |-> << >>] : o \in BOOLEAN, k \in {"errobj", "obj", "unparseable"} }

\* The class of an answer: its status, the kind of its body, and whether
\* the array is empty.
ResponseClass(resp) == [ok |-> resp.ok, kind |-> resp.kind, empty |-> resp.data = << >>]

ListClasses ==
  [ok : BOOLEAN, kind : {"array", "errobj", "obj", "unparseable"}, empty : BOOLEAN]

\* ----------------------------------------------------------------- state
VARIABLES
  apiBase,               \* identity of API_BASE_URL
  items,                 \* subjects, gradeLevels, iloCategories, iloPatterns, bloomLevels
  ver,                   \* per repository: how often its array was set (array identity)
  loading,               \* isLoadingSubjects, ... isLoadingBloomLevels
  loads,                 \* per repository: the load closures still running
  served,                \* the list endpoints that answer; a fetch to another one hangs
  topic,
  selectedSubjectId,
  selectedGradeLevelId,
  selectedCategoryId,
  selectedBloomLevelId,
  availableVerbs,
  selectedVerbId,
  catDeps,               \* dependencies the category effect last ran with
  bloomDeps,             \* dependencies the Bloom level effect last ran with
  messages,
  inputValue,
  uploadedFile,
  isTyping,
  isUploading,
  isAnalyzing,
  isGeneratingILOs,
  actionTemplates,
  net                    \* write-path requests in flight, in order of issue

repoVars == << apiBase, items, ver, loading, loads, served >>

selVars == << topic, selectedSubjectId, selectedGradeLevelId, selectedCategoryId,
              selectedBloomLevelId, availableVerbs, selectedVerbId >>

cascadeVars == << selectedBloomLevelId, availableVerbs, selectedVerbId >>

depVars == << catDeps, bloomDeps >>

busyVars == << isTyping, isUploading, isAnalyzing, isGeneratingILOs >>

convVars == << messages, inputValue, uploadedFile, isTyping, isUploading, isAnalyzing,
               isGeneratingILOs, actionTemplates, net >>

vars == << apiBase, items, ver, loading, loads, served, topic, selectedSubjectId,
           selectedGradeLevelId, selectedCategoryId, selectedBloomLevelId,
           availableVerbs, selectedVerbId, catDeps, bloomDeps, messages, inputValue,
           uploadedFile, isTyping, isUploading, isAnalyzing, isGeneratingILOs,
           actionTemplates, net >>

subjects == items["subjects"]

gradeLevels == items["gradeLevels"]

iloCategories == items["iloCategories"]

iloPatterns == items["iloPatterns"]

bloomLevels == items["bloomLevels"]

\* ------------------------------------------------------------- utilities
Range(s) == { s[i] : i \in 1..Len(s) }

\* Array.prototype.find on the id: the first element with that id, as a
\* sequence of length 0 (undefined) or 1.
FindById(list, id) ==
  LET hits == { i \in 1..Len(list) : list[i].id = id }
  IN IF hits = {} THEN << >>
     ELSE << list[CHOOSE i \in hits : \A j \in hits : i <= j] >>

\* String.prototype.trim on the strings the model uses.
Trim(s) == IF s = " " THEN "" ELSE s

\* ------------------------------------------------------------- messages
GreetingText == "greeting"

Message(prev, role, text, ilos, suggestedQuestions) ==
  [id |-> Len(prev) + 1, role |-> role, text |-> text, ilos |-> ilos,
   suggestedQuestions |-> suggestedQuestions]

\* An addMessage that puts the new message first: [msg, ...prev].
addMessageNewestFirst(prev, role, text, ilos, suggestedQuestions) ==
  << Message(prev, role, text, ilos, suggestedQuestions) >> \o prev

addMessage(prev, role, text, ilos, suggestedQuestions) ==
  Append(prev, Message(prev, role, text, ilos, suggestedQuestions))

\* ------------------------------------------------------------------ Init
\* The state after the first commit and its effects: the greeting is in
\* the history and the five loads have been started.
Init ==
  /\ apiBase = 0
  /\ items = [r \in Repos |-> << >>]
  /\ ver = [r \in Repos |-> 0]
  /\ loading = [r \in Repos |-> TRUE]
  /\ loads = [r \in Repos |-> { [base |-> 0, cancelled |-> FALSE, stage |-> "fetch"] }]
  /\ served \in SUBSET Repos
  /\ topic = ""
  /\ selectedSubjectId = Null
  /\ selectedGradeLevelId = Null
  /\ selectedCategoryId = Null
  /\ selectedBloomLevelId = Null
  /\ availableVerbs = << >>
  /\ selectedVerbId = Null
  /\ catDeps = [id |-> Null, ver |-> 0]
  /\ bloomDeps = [id |-> Null, ver |-> 0]
  /\ messages = addMessage(<< >>, "bot", GreetingText, << >>, << >>)
  /\ inputValue = ""
  /\ uploadedFile = "none"
  /\ isTyping = FALSE
  /\ isUploading = FALSE
  /\ isAnalyzing = FALSE
  /\ isGeneratingILOs = FALSE
  /\ actionTemplates = << >>
  /\ net = << >>

\* ------------------------------------------------------ taxonomy loads
\* The effect cleanup and re-run when API_BASE_URL changes: every running
\* load closure gets cancelled = true and a new load starts per repository.
ChangeBaseUrl ==
  /\ apiBase < MaxReloads
  /\ apiBase' = apiBase + 1
  /\ loads' = [r \in Repos |->
                 { [l EXCEPT !.cancelled = TRUE] : l \in loads[r] }
                 \cup { [base |-> apiBase + 1, cancelled |-> FALSE, stage |-> "fetch"] }]
  /\ loading' = [r \in Repos |-> TRUE]
  /\ UNCHANGED << items, ver, served, selVars, depVars, convVars >>

\* `if (cancelled) return;` after `await fetch(...)`.
StaleAfterFetch(l) == l.cancelled

\* A `finally` block without the guard.
ClearsLoadingAlways(l) == TRUE

\* The guard of the `finally` block: `if (!cancelled) setIsLoadingXxx(false)`.
ClearsLoading(l) == ~l.cancelled

\* fetch resolved: a stale load returns, a live one goes on to resp.text().
LoadFetchResolve(r) ==
  \E l \in loads[r] :
    /\ r \in served
    /\ l.stage = "fetch"
    /\ loads' = [loads EXCEPT ![r] =
                   IF StaleAfterFetch(l) THEN @ \ {l}
                   ELSE (@ \ {l}) \cup { [l EXCEPT !.stage = "text"] }]
    /\ UNCHANGED << apiBase, items, ver, loading, served, selVars, depVars, convVars >>

\* A catch block that also reports the failure in the conversation.
LoadFetchRejectReporting(r) ==
  \E l \in loads[r] :
    /\ r \in served
    /\ l.stage = "fetch"
    /\ loads' = [loads EXCEPT ![r] = @ \ {l}]
    /\ IF l.cancelled
         THEN UNCHANGED << items, ver, loading, messages >>
         ELSE /\ items' = [items EXCEPT ![r] = << >>]
              /\ ver' = [ver EXCEPT ![r] = @ + 1]
              /\ loading' = [loading EXCEPT ![r] = FALSE]
              /\ messages' = addMessage(messages, "bot", << "load failed" >>, << >>, << >>)
    /\ UNCHANGED << apiBase, served, selVars, depVars, inputValue, uploadedFile, busyVars,
                    actionTemplates, net >>

\* fetch rejected: the catch block, then finally.
LoadFetchReject(r) ==
  \E l \in loads[r] :
    /\ r \in served
    /\ l.stage = "fetch"
    /\ loads' = [loads EXCEPT ![r] = @ \ {l}]
    /\ IF l.cancelled
         THEN UNCHANGED << items, ver, loading >>
         ELSE /\ items' = [items EXCEPT ![r] = << >>]
              /\ ver' = [ver EXCEPT ![r] = @ + 1]
              /\ loading' = [loading EXCEPT ![r] = FALSE]
    /\ UNCHANGED << apiBase, served, selVars, depVars, convVars >>

\* A load that stores every array, whatever the status.
LoadedItemsIgnoringStatus(resp) ==
  IF resp.kind = "array" THEN resp.data ELSE << >>

\* What the load stores for a decoded response.
LoadedItems(resp) ==
  IF resp.ok /\ resp.kind = "array" THEN resp.data ELSE << >>

\* A default that replaces the selection at every non-empty load.
DefaultSelectionAlways(prev, resp) ==
  IF resp.ok /\ resp.kind = "array" /\ Len(resp.data) > 0
    THEN resp.data[1].id
    ELSE prev

\* setSelectedXxxId(prev => prev === null && data.length > 0 ? data[0].id : prev)
DefaultSelection(prev, resp) ==
  IF resp.ok /\ resp.kind = "array" /\ prev = Null /\ Len(resp.data) > 0
    THEN resp.data[1].id
    ELSE prev

\* resp.text() settled and the body was decoded: the items are stored, the
\* default selection is made (subjects and grade levels), then finally.
LoadBody(r, classes) ==
  \E l \in loads[r] :
    /\ l.stage = "text"
    /\ \E resp \in { x \in ListResponses(r, l.base) : ResponseClass(x) \in classes } :
         /\ items' = [items EXCEPT ![r] = LoadedItems(resp)]
         /\ ver' = [ver EXCEPT ![r] = @ + 1]
         /\ selectedSubjectId' =
              IF r = "subjects" THEN DefaultSelection(selectedSubjectId, resp)
              ELSE selectedSubjectId
         /\ selectedGradeLevelId' =
              IF r = "gradeLevels" THEN DefaultSelection(selectedGradeLevelId, resp)
              ELSE selectedGradeLevelId
    /\ loads' = [loads EXCEPT ![r] = @ \ {l}]
    /\ loading' = IF ClearsLoading(l) THEN [loading EXCEPT ![r] = FALSE] ELSE loading
    /\ UNCHANGED << apiBase, served, topic, selectedCategoryId, cascadeVars, depVars, convVars >>

\* ------------------------------------------------------ cascade effects
CurCatDeps == [id |-> selectedCategoryId, ver |-> ver["iloCategories"]]

\* Dependencies of the Bloom effect that include the selected verb.
CurBloomDepsWithVerb ==
  [id |-> selectedBloomLevelId, ver |-> ver["bloomLevels"], verb |-> selectedVerbId]

\* [selectedBloomLevelId, bloomLevels]
CurBloomDeps == [id |-> selectedBloomLevelId, ver |-> ver["bloomLevels"]]

CatEffectPending == catDeps # CurCatDeps

BloomEffectPending == bloomDeps # CurBloomDeps

EffectsFlushed == ~CatEffectPending /\ ~BloomEffectPending

\* A category effect that tests require_bloom_taxonomy instead of
\* show_bloom_taxonomy.
CategoryEffectClearsUnlessRequired(catId, cats) ==
  /\ catId # Null
  /\ LET selectedCategory == FindById(cats, catId)
     IN /\ selectedCategory # << >>
        /\ ~selectedCategory[1].require_bloom_taxonomy

\* The effect on [selectedCategoryId, iloCategories]: whether it clears the
\* Bloom level, the verb and the verb list.
CategoryEffectClears(catId, cats) ==
  /\ catId # Null
  /\ LET selectedCategory == FindById(cats, catId)
     IN /\ selectedCategory # << >>
        /\ ~selectedCategory[1].show_bloom_taxonomy

\* A Bloom effect that replaces the verb list and leaves the selected verb.
BloomEffectKeepsVerb(levelId, levels) ==
  IF levelId = Null
    THEN [availableVerbs |-> << >>, selectedVerbId |-> Null]
    ELSE LET selectedLevel == FindById(levels, levelId)
         IN IF selectedLevel # << >>
              THEN [availableVerbs |-> selectedLevel[1].bloom_taxonomy_verbs,
                    selectedVerbId |-> selectedVerbId]
              ELSE [availableVerbs |-> << >>, selectedVerbId |-> Null]

\* A Bloom effect that adds the level's verbs to the list already there.
BloomEffectMerges(levelId, levels) ==
  IF levelId = Null
    THEN [availableVerbs |-> << >>, selectedVerbId |-> Null]
    ELSE LET selectedLevel == FindById(levels, levelId)
             merged == availableVerbs \o (IF selectedLevel # << >>
                                            THEN selectedLevel[1].bloom_taxonomy_verbs
                                            ELSE << >>)
         IN [availableVerbs |-> merged,
             selectedVerbId |-> IF Len(merged) > 0 THEN merged[1].id ELSE Null]

\* The effect on [selectedBloomLevelId, bloomLevels]: the verb list and the
\* verb it sets.
BloomEffect(levelId, levels) ==
  IF levelId = Null
    THEN [availableVerbs |-> << >>, selectedVerbId |-> Null]
    ELSE LET selectedLevel == FindById(levels, levelId)
         IN IF selectedLevel # << >>
              THEN [availableVerbs |-> selectedLevel[1].bloom_taxonomy_verbs,
                    selectedVerbId |->
                      IF Len(selectedLevel[1].bloom_taxonomy_verbs) > 0
                        THEN selectedLevel[1].bloom_taxonomy_verbs[1].id
                        ELSE Null]
              ELSE [availableVerbs |-> << >>, selectedVerbId |-> Null]

\* One flush of the passive effects of a commit: the effects whose
\* dependencies changed run in source order, both with the values of the
\* render they belong to; their state updates are applied in call order.
FlushEffects ==
  /\ ~EffectsFlushed
  /\ LET clears == CatEffectPending /\ CategoryEffectClears(selectedCategoryId, iloCategories)
         bloom  == BloomEffect(selectedBloomLevelId, bloomLevels)
     IN /\ selectedBloomLevelId' = IF clears THEN Null ELSE selectedBloomLevelId
        /\ availableVerbs' =
             IF BloomEffectPending THEN bloom.availableVerbs
             ELSE IF clears THEN << >> ELSE availableVerbs
        /\ selectedVerbId' =
             IF BloomEffectPending THEN bloom.selectedVerbId
             ELSE IF clears THEN Null ELSE selectedVerbId
  /\ catDeps' = CurCatDeps
  /\ bloomDeps' = CurBloomDeps
  /\ UNCHANGED << repoVars, topic, selectedSubjectId, selectedGradeLevelId,
                  selectedCategoryId, convVars >>

\* ------------------------------------------------------- user selection
Topics == {"", " ", "t"}

\* topic-input onChange
SetTopic(t) ==
  /\ EffectsFlushed
  /\ topic' = t
  /\ UNCHANGED << repoVars, selectedSubjectId, selectedGradeLevelId, selectedCategoryId,
                  cascadeVars, depVars, convVars >>

\* The values a <select> offers: "" (null) and, once the list is loaded and
\* non-empty, the ids of the list.
SelectOptions(isLoading, list) ==
  {Null} \cup (IF isLoading THEN {} ELSE { list[i].id : i \in 1..Len(list) })

\* subject-select onChange (the select is disabled while loading)
SetSubject ==
  /\ EffectsFlushed
  /\ ~loading["subjects"]
  /\ \E v \in SelectOptions(loading["subjects"], subjects) : selectedSubjectId' = v
  /\ UNCHANGED << repoVars, topic, selectedGradeLevelId, selectedCategoryId,
                  cascadeVars, depVars, convVars >>

\* grade-level-select onChange
SetGrade ==
  /\ EffectsFlushed
  /\ ~loading["gradeLevels"]
  /\ \E v \in SelectOptions(loading["gradeLevels"], gradeLevels) : selectedGradeLevelId' = v
  /\ UNCHANGED << repoVars, topic, selectedSubjectId, selectedCategoryId,
                  cascadeVars, depVars, convVars >>

\* category radio onChange: the radios exist once the list is loaded.
SetCategory(id) ==
  /\ EffectsFlushed
  /\ ~loading["iloCategories"]
  /\ \E i \in 1..Len(iloCategories) : iloCategories[i].id = id
  /\ selectedCategoryId' = id
  /\ UNCHANGED << repoVars, topic, selectedSubjectId, selectedGradeLevelId,
                  cascadeVars, depVars, convVars >>

\* Whether the Bloom level select is on screen: a category is selected, is
\* found in the list and has show_bloom_taxonomy.
BloomSelectShown ==
  /\ selectedCategoryId # Null
  /\ LET selectedCategory == FindById(iloCategories, selectedCategoryId)
     IN selectedCategory # << >> /\ selectedCategory[1].show_bloom_taxonomy

\* bloom-level-select onChange
SetBloomLevel ==
  /\ EffectsFlushed
  /\ BloomSelectShown
  /\ ~loading["bloomLevels"]
  /\ \E v \in SelectOptions(loading["bloomLevels"], bloomLevels) : selectedBloomLevelId' = v
  /\ UNCHANGED << repoVars, topic, selectedSubjectId, selectedGradeLevelId,
                  selectedCategoryId, availableVerbs, selectedVerbId, depVars, convVars >>

\* verb-select onChange: on screen when a Bloom level is selected, disabled
\* when availableVerbs is empty.
SetVerb ==
  /\ EffectsFlushed
  /\ BloomSelectShown
  /\ selectedBloomLevelId # Null
  /\ availableVerbs # << >>
  /\ \E v \in SelectOptions(FALSE, availableVerbs) : selectedVerbId' = v
  /\ UNCHANGED << repoVars, topic, selectedSubjectId, selectedGradeLevelId,
                  selectedCategoryId, selectedBloomLevelId, availableVerbs, depVars,
                  convVars >>

\* The cascade: the category and Bloom level endpoints answer, the base
\* address may change, the user picks categories, levels and verbs.
AllIds == { 10 * b + k : b \in 0..MaxReloads, k \in 1..4 }

InitCascade == Init /\ served = {"iloCategories", "bloomLevels"}

NextCascade ==
  \/ ChangeBaseUrl
  \/ \E r \in Repos : LoadFetchResolve(r)
  \/ \E r \in Repos : LoadFetchReject(r)
  \/ \E r \in Repos : LoadBody(r, ListClasses)
  \/ FlushEffects
  \/ \E id \in AllIds : SetCategory(id)
  \/ SetBloomLevel
  \/ SetVerb

SpecCascade == InitCascade /\ [][NextCascade]_vars

\* ------------------------------------------------------------ chat input
\* textarea onChange
SetInput(v) ==
  /\ EffectsFlushed
  /\ inputValue' = v
  /\ UNCHANGED << repoVars, selVars, depVars, messages, uploadedFile, busyVars,
                  actionTemplates, net >>

\* file input onChange; the upload button is disabled while uploading or
\* analyzing.
AttachFile ==
  /\ EffectsFlushed
  /\ ~(isUploading \/ isAnalyzing)
  /\ uploadedFile' = "f1"
  /\ UNCHANGED << repoVars, selVars, depVars, messages, inputValue, busyVars,
                  actionTemplates, net >>

\* file-remove-btn onClick
RemoveFile ==
  /\ EffectsFlushed
  /\ uploadedFile # "none"
  /\ uploadedFile' = "none"
  /\ UNCHANGED << repoVars, selVars, depVars, messages, inputValue, busyVars,
                  actionTemplates, net >>

\* ------------------------------------------------------ request building
\* Texts are sequences of parts: a literal alone, or a literal followed by
\* the detail the code interpolates into it.
IsBlank(text) == text \in { << "" >>, << " " >> }

\* ------------------------------------------------------- name resolvers
\* const preferredOrder = [locale, "zh_HK", "en_US", "zh_CN"];
PreferredOrder(locale) == << locale, "zh_HK", "en_US", "zh_CN" >>

\* entity.translation is there and is an array.
HasTranslationArray(entity) == "translation" \in DOMAIN entity

\* translation.filter(t => t.lang_code === langCode)
MatchingTranslations(translation, langCode) ==
  SelectSeq(translation, LAMBDA t : t.lang_code = langCode)

\* The first element after matchingTranslations.sort((a, b) => dateB - dateA):
\* the latest updated_at, the earliest of those in the array (the sort is
\* stable).
SortedFirst(matching) ==
  LET i == CHOOSE i \in 1..Len(matching) :
             /\ \A j \in 1..Len(matching) : matching[j].updated_at <= matching[i].updated_at
             /\ \A j \in 1..(i - 1) : matching[j].updated_at < matching[i].updated_at
  IN matching[i]

\* The loop of getSubjectName from the k-th locale on: the name it returns,
\* "" when it runs to its end.
RECURSIVE SubjectNameInOrder(_, _, _)
SubjectNameInOrder(translation, order, k) ==
  IF k > Len(order) THEN ""
  ELSE LET matching == MatchingTranslations(translation, order[k])
           found == IF Len(matching) = 0 THEN ""
                    ELSE IF Len(matching) > 1 /\ matching[1].updated_at # 0
                           THEN SortedFirst(matching).name
                           ELSE matching[1].name
       IN IF found # "" THEN found ELSE SubjectNameInOrder(translation, order, k + 1)

getSubjectName(subject, locale) ==
  IF ~HasTranslationArray(subject) THEN subject.name
  ELSE LET found == SubjectNameInOrder(subject.translation, PreferredOrder(locale), 1)
       IN IF found # "" THEN found
          ELSE IF Len(subject.translation) > 0 /\ subject.translation[1].name # ""
                 THEN subject.translation[1].name
                 ELSE subject.name

\* The loop of the other resolvers from the k-th locale on, for the field
\* they read: translation.find(t => t.lang_code === langCode), returned
\* when its text is not empty.
RECURSIVE FoundInOrder(_, _, _, _)
FoundInOrder(translation, order, k, field) ==
  IF k > Len(order) THEN ""
  ELSE LET matching == MatchingTranslations(translation, order[k])
           found == IF Len(matching) = 0 THEN "" ELSE matching[1][field]
       IN IF found # "" THEN found ELSE FoundInOrder(translation, order, k + 1, field)

\* The body the four resolvers below share.
ResolveByFind(entity, locale, field) ==
  IF ~HasTranslationArray(entity) THEN entity[field]
  ELSE LET found == FoundInOrder(entity.translation, PreferredOrder(locale), 1, field)
       IN IF found # "" THEN found
          ELSE IF Len(entity.translation) > 0 /\ entity.translation[1][field] # ""
                 THEN entity.translation[1][field]
                 ELSE entity[field]

getGradeLevelName(gradeLevel, locale) == ResolveByFind(gradeLevel, locale, "name")

getBloomLevelName(level, locale) == ResolveByFind(level, locale, "name")

getVerbName(verb, locale) == ResolveByFind(verb, locale, "name")

getPatternStatement(pattern, locale) == ResolveByFind(pattern, locale, "statement")

\* The own name of the selected entity as an optional field (<< >> when
\* nothing is selected or the id is not in the list): selectedCategory.name.
NameOfSelected(id, list) ==
  IF id = Null THEN << >>
  ELSE LET e == FindById(list, id) IN IF e = << >> THEN << >> ELSE << e[1].name >>

\* selectedSubject ? getSubjectName(selectedSubject, "zh_HK") : absent
SubjectOfSelected ==
  LET selectedSubject == FindById(subjects, selectedSubjectId)
  IN IF selectedSubjectId = Null \/ selectedSubject = << >> THEN << >>
     ELSE << getSubjectName(selectedSubject[1], "zh_HK") >>

GradeOfSelected ==
  LET selectedGradeLevel == FindById(gradeLevels, selectedGradeLevelId)
  IN IF selectedGradeLevelId = Null \/ selectedGradeLevel = << >> THEN << >>
     ELSE << getGradeLevelName(selectedGradeLevel[1], "zh_HK") >>

BloomLevelOfSelected ==
  LET selectedBloomLevel == FindById(bloomLevels, selectedBloomLevelId)
  IN IF selectedBloomLevelId = Null \/ selectedBloomLevel = << >> THEN << >>
     ELSE << getBloomLevelName(selectedBloomLevel[1], "zh_HK") >>

VerbOfSelected ==
  LET selectedVerb == FindById(availableVerbs, selectedVerbId)
  IN IF selectedVerbId = Null \/ selectedVerb = << >> THEN << >>
     ELSE << getVerbName(selectedVerb[1], "zh_HK") >>

TopicField == IF Trim(topic) # "" THEN << Trim(topic) >> ELSE << >>

HistoryWindow == 10

\* A window that keeps the first n messages: messages.slice(0, 10).
FirstN(s, n) == IF Len(s) <= n THEN s ELSE SubSeq(s, 1, n)

\* messages.slice(-n)
LastN(s, n) == IF Len(s) <= n THEN s ELSE SubSeq(s, Len(s) - n + 1, Len(s))

HistoryEntry(m) == [role |-> IF m.role = "bot" THEN "assistant" ELSE m.role, content |-> m.text]

\* messages.slice(-10).map(...).filter(m => m.content.trim().length > 0)
ConversationHistory(msgs) ==
  SelectSeq([i \in 1..Len(LastN(msgs, HistoryWindow)) |-> HistoryEntry(LastN(msgs, HistoryWindow)[i])],
            LAMBDA e : ~IsBlank(e.content))

\* The body of POST /api/chat; conversation_history is built from the
\* messages of the render the handler belongs to.
ChatRequestBody(text, isSuggestedQuestion) ==
  [message |-> text,
   is_suggested_question |-> IF isSuggestedQuestion THEN << TRUE >> ELSE << >>,
   subject |-> SubjectOfSelected,
   grade |-> GradeOfSelected,
   topic |-> TopicField,
   conversation_history |-> ConversationHistory(messages)]

\* The multipart body of POST /api/analyze-document.
AnalyzeRequestBody(file, userMessage) ==
  [file |-> file,
   message |-> IF Trim(userMessage) # "" THEN << userMessage >> ELSE << >>,
   subject |-> SubjectOfSelected,
   grade |-> GradeOfSelected,
   topic |-> TopicField]

OrEmpty(opt) == IF opt = << >> THEN "" ELSE opt[1]

\* The body of POST /api/generate_ilos.
GenerateRequestBody ==
  [topic |-> Trim(topic),
   subject |-> OrEmpty(SubjectOfSelected),
   grade |-> OrEmpty(GradeOfSelected),
   category |-> OrEmpty(NameOfSelected(selectedCategoryId, iloCategories)),
   bloom_level |-> OrEmpty(BloomLevelOfSelected),
   action_verb |-> OrEmpty(VerbOfSelected),
   disciplinary_practice |-> "General Inquiry"]

Request(kind, body) == [kind |-> kind, stage |-> "fetch", body |-> body]

\* A guard of sendMessage that skips the busy test when a file is pending.
SendRejectedBusyUnlessFile(text, hasFile) == (text = "" /\ ~hasFile) \/ (isTyping /\ ~hasFile)

\* ------------------------------------------------------------ sendMessage
\* The guard of sendMessage without its busy test.
SendRejectedIgnoringBusy(text, hasFile) == text = "" /\ ~hasFile

\* The guard of sendMessage without its test of the text.
SendRejectedIgnoringBlank(text, hasFile) == isTyping

\* `if ((!text && !hasFile) || isTyping) return;`
SendRejected(text, hasFile) == (text = "" /\ ~hasFile) \/ isTyping

\* `if (!uploadedFile || isUploading || isAnalyzing) return;`
AnalyzeRejected == uploadedFile = "none" \/ isUploading \/ isAnalyzing

\* An analyze flow that keeps the file in state.
handleFileUploadAndAnalyzeKeepingFile(userMessage) ==
  /\ ~AnalyzeRejected
  /\ UNCHANGED uploadedFile
  /\ isUploading' = TRUE
  /\ isAnalyzing' = TRUE
  /\ messages' = addMessage(messages, "user", << "FILE: ", uploadedFile >>, << >>, << >>)
  /\ inputValue' = ""
  /\ isTyping' = TRUE
  /\ net' = Append(net, Request("analyze", AnalyzeRequestBody(uploadedFile, userMessage)))
  /\ UNCHANGED isGeneratingILOs

\* handleFileUploadAndAnalyze(userMessage) up to its await.
handleFileUploadAndAnalyze(userMessage) ==
  IF AnalyzeRejected
    THEN UNCHANGED << messages, inputValue, uploadedFile, busyVars, net >>
    ELSE /\ uploadedFile' = "none"
         /\ isUploading' = TRUE
         /\ isAnalyzing' = TRUE
         /\ messages' =
              LET withText == IF Trim(userMessage) # ""
                                THEN addMessage(messages, "user", << userMessage >>, << >>, << >>)
                                ELSE messages
              IN addMessage(withText, "user", << "FILE: ", uploadedFile >>, << >>, << >>)
         /\ inputValue' = ""
         /\ isTyping' = TRUE
         /\ net' = Append(net, Request("analyze", AnalyzeRequestBody(uploadedFile, userMessage)))
         /\ UNCHANGED isGeneratingILOs

\* sendMessage(messageText, isSuggestedQuestion) up to its await;
\* messageText is << >> for null.
\* The first argument of sendMessage is absent (<< >>), a string, or the
\* click event React hands to a handler passed as onClick; the event is an
\* object, truthy and without a trim method.
ClickEvent == "[click event]"

\* `(messageText || inputValue).trim()` throws a TypeError for the event:
\* the async function ends there with a rejected promise and no setter has
\* been called.
sendMessage(messageText, isSuggestedQuestion) ==
  IF messageText = << ClickEvent >>
    THEN EffectsFlushed /\ UNCHANGED vars
    ELSE
  LET text == Trim(IF messageText # << >> /\ messageText[1] # "" THEN messageText[1] ELSE inputValue)
      hasFile == uploadedFile # "none"
  IN /\ EffectsFlushed
     /\ IF SendRejected(text, hasFile)
          THEN UNCHANGED << messages, inputValue, uploadedFile, busyVars, net >>
          ELSE IF hasFile
            THEN handleFileUploadAndAnalyze(text)
            ELSE /\ messages' = addMessage(messages, "user", << text >>, << >>, << >>)
                 /\ inputValue' = ""
                 /\ isTyping' = TRUE
                 /\ net' = Append(net, Request("chat", ChatRequestBody(text, isSuggestedQuestion)))
                 /\ UNCHANGED << uploadedFile, isUploading, isAnalyzing, isGeneratingILOs >>
     /\ UNCHANGED << repoVars, selVars, depVars, actionTemplates >>

\* The history and the requests in flight have room for a submit.
SubmitBounded == Len(messages) < MaxMsgs /\ Len(net) < MaxInflight

\* onInputKeyDown: Enter without Shift calls sendMessage().
PressEnter == SubmitBounded /\ sendMessage(<< >>, FALSE)

\* disabled={isTyping || (!inputValue.trim() && !uploadedFile)}
SendDisabled == isTyping \/ (Trim(inputValue) = "" /\ uploadedFile = "none")

\* The send button: onClick={sendMessage}.
ClickSend == ~SendDisabled /\ SubmitBounded /\ sendMessage(<< ClickEvent >>, FALSE)

\* Enter in a long conversation.
PressEnterLong ==
  Len(messages) < MaxHistory /\ Len(net) < MaxInflight /\ sendMessage(<< >>, FALSE)

\* A suggested-question button of a bot message: sendMessage(question, true).
ClickSuggestedQuestion ==
  \E i \in 1..Len(messages) :
    /\ messages[i].role = "bot"
    /\ \E k \in 1..Len(messages[i].suggestedQuestions) :
         /\ messages[i].suggestedQuestions[k] # ""
         /\ SubmitBounded
         /\ sendMessage(<< messages[i].suggestedQuestions[k] >>, TRUE)

\* ----------------------------------------------------------- generateILOs
\* A validation that looks at the category before the topic.
GenerateValidationCategoryFirst(t, catId, cats, bloomId, verbId) ==
  IF catId = Null THEN "category"
  ELSE IF Trim(t) = "" THEN "topic"
  ELSE LET selectedCategory == FindById(cats, catId)
       IN IF selectedCategory = << >> THEN "invalid_category"
          ELSE IF selectedCategory[1].show_bloom_taxonomy
                  /\ selectedCategory[1].require_bloom_taxonomy /\ bloomId = Null
            THEN "bloom"
          ELSE IF selectedCategory[1].show_bloom_taxonomy /\ bloomId # Null /\ verbId = Null
            THEN "verb"
          ELSE "ok"

\* A validation without the test of a required Bloom level.
GenerateValidationNoBloomCheck(t, catId, cats, bloomId, verbId) ==
  IF Trim(t) = "" THEN "topic"
  ELSE IF catId = Null THEN "category"
  ELSE LET selectedCategory == FindById(cats, catId)
       IN IF selectedCategory = << >> THEN "invalid_category"
          ELSE IF selectedCategory[1].show_bloom_taxonomy /\ bloomId # Null /\ verbId = Null
            THEN "verb"
          ELSE "ok"

\* A validation that reports a category missing from the list as no
\* category selected.
GenerateValidationUnknownAsUnset(t, catId, cats, bloomId, verbId) ==
  IF Trim(t) = "" THEN "topic"
  ELSE LET selectedCategory == FindById(cats, catId)
       IN IF catId = Null \/ selectedCategory = << >> THEN "category"
          ELSE IF selectedCategory[1].show_bloom_taxonomy
                  /\ selectedCategory[1].require_bloom_taxonomy /\ bloomId = Null
            THEN "bloom"
          ELSE IF selectedCategory[1].show_bloom_taxonomy /\ bloomId # Null /\ verbId = Null
            THEN "verb"
          ELSE "ok"

\* The validation of generateILOs: "ok", or which message it adds.
GenerateValidation(t, catId, cats, bloomId, verbId) ==
  IF Trim(t) = "" THEN "topic"
  ELSE IF catId = Null THEN "category"
  ELSE LET selectedCategory == FindById(cats, catId)
       IN IF selectedCategory = << >> THEN "invalid_category"
          ELSE IF selectedCategory[1].show_bloom_taxonomy
                  /\ selectedCategory[1].require_bloom_taxonomy /\ bloomId = Null
            THEN "bloom"
          ELSE IF selectedCategory[1].show_bloom_taxonomy /\ bloomId # Null /\ verbId = Null
            THEN "verb"
          ELSE "ok"

ValidationText(v) ==
  CASE v = "topic"            -> << "enter a topic first" >>
    [] v = "category"         -> << "select an ILO category first" >>
    [] v = "invalid_category" -> << "select a valid ILO category first" >>
    [] v = "bloom"            -> << "this category needs a Bloom Taxonomy Level" >>
    [] v = "verb"             -> << "select a verb first" >>

\* `if (isGeneratingILOs) return;`
GenerateRejected == isGeneratingILOs

\* generateILOs() up to its await.
generateILOs ==
  /\ EffectsFlushed
  /\ Len(messages) < MaxGenMsgs
  /\ Len(net) < MaxInflight
  /\ LET v == GenerateValidation(topic, selectedCategoryId, iloCategories,
                                 selectedBloomLevelId, selectedVerbId)
     IN IF GenerateRejected
          THEN UNCHANGED << messages, isGeneratingILOs, net >>
          ELSE IF v # "ok"
            THEN /\ messages' = addMessage(messages, "bot", ValidationText(v), << >>, << >>)
                 /\ UNCHANGED << isGeneratingILOs, net >>
            ELSE /\ isGeneratingILOs' = TRUE
                 /\ net' = Append(net, Request("generate", GenerateRequestBody))
                 /\ UNCHANGED messages
  /\ UNCHANGED << repoVars, selVars, depVars, inputValue, uploadedFile, isTyping,
                  isUploading, isAnalyzing, actionTemplates >>

\* The `disabled` expression of the generate button.
GenerateDisabled ==
  \/ isGeneratingILOs
  \/ Trim(topic) = ""
  \/ selectedCategoryId = Null
  \/ LET cat == FindById(iloCategories, selectedCategoryId)
     IN /\ cat # << >>
        /\ cat[1].require_bloom_taxonomy
        /\ (selectedBloomLevelId = Null \/ selectedVerbId = Null)

\* generate button onClick: a disabled button gives no click.
ClickGenerate == ~GenerateDisabled /\ generateILOs

\* -------------------------------------------------------------- responses
HttpText(status) == IF status = "500" THEN "HTTP 500" ELSE "HTTP 200"

\* One element of a response's actions array; isNull marks a JSON null.
Action(type, patterns) ==
  [isNull |-> FALSE, action_type |-> type, patterns |-> patterns,
   presentation |-> << >>, context |-> << >>]

NullAction ==
  [isNull |-> TRUE, action_type |-> "", patterns |-> << >>,
   presentation |-> << >>, context |-> << >>]

\* The for-loop over data.actions: the directive of the first show_pattern
\* element with payload.patterns; reading action_type of a null element
\* throws.
RECURSIVE ScanActions(_, _)
ScanActions(actions, i) ==
  IF i > Len(actions) THEN [throws |-> FALSE, directive |-> << >>]
  ELSE IF actions[i].isNull THEN [throws |-> TRUE, directive |-> << >>]
  ELSE IF actions[i].action_type = "show_pattern" /\ actions[i].patterns # << >>
    THEN [throws |-> FALSE,
          directive |-> << [patterns |-> actions[i].patterns[1],
                            presentation |-> IF actions[i].presentation = << >> THEN "popup"
                                             ELSE actions[i].presentation[1],
                            context |-> IF actions[i].context = << >> THEN "ILO"
                                        ELSE actions[i].context[1]] >>]
  ELSE ScanActions(actions, i + 1)

\* `if (data?.actions && Array.isArray(data.actions)) { for ... }`
HandleActions(actionsField) ==
  IF actionsField = << >> THEN [throws |-> FALSE, directive |-> << >>]
  ELSE ScanActions(actionsField[1], 1)

Bot(text, ilos, suggestedQuestions) ==
  [role |-> "bot", text |-> text, ilos |-> ilos, suggestedQuestions |-> suggestedQuestions]

\* ---- chat
ChatData(text, error, suggested, actions) ==
  [text |-> text, error |-> error, suggested_questions |-> suggested, actions |-> actions]

\* `resp.json().catch(() => ({}))`
ChatEmpty == ChatData(<< >>, << >>, << >>, << >>)

extractReplyText(data) == IF data.text = << >> THEN "" ELSE data.text[1]

ChatFailureText == << "connection failed" >>

ChatPlaceholder == << "(no reply content)" >>

\* A non-2xx branch that prefers the error field to the reply text.
ChatOutcomeErrorFirst(status, data) ==
  [msgs |-> << Bot(IF data.error # << >> THEN << data.error[1] >>
                   ELSE IF extractReplyText(data) # "" THEN << extractReplyText(data) >>
                   ELSE IF status # "200" THEN << "server error: ", HttpText(status) >>
                   ELSE ChatPlaceholder,
                   << >>, << >>) >>,
   directive |-> << >>]

\* A chat flow that scans the actions of every response, whatever its status.
ChatOutcomeScanningAlways(status, data) ==
  [ChatOutcomeErrorFirst(status, data) EXCEPT
     !.directive = HandleActions(data.actions).directive]

\* sendMessage after `await resp.json()`: the messages it adds and the
\* directive it sets.
ChatOutcome(status, data) ==
  IF status # "200"
    THEN [msgs |-> << Bot(IF extractReplyText(data) # "" THEN << extractReplyText(data) >>
                          ELSE IF data.error # << >> THEN << data.error[1] >>
                          ELSE << "server error: ", HttpText(status) >>,
                          << >>, << >>) >>,
          directive |-> << >>]
    ELSE LET reply == Bot(IF extractReplyText(data) # "" THEN << extractReplyText(data) >>
                          ELSE ChatPlaceholder,
                          << >>,
                          IF data.suggested_questions = << >> THEN << >>
                          ELSE data.suggested_questions[1])
             scan == HandleActions(data.actions)
         IN [msgs |-> IF scan.throws THEN << reply, Bot(ChatFailureText, << >>, << >>) >>
                      ELSE << reply >>,
             directive |-> scan.directive]

\* ---- analyze
AnalyzeData(isNull, analysis, message, error, actions) ==
  [isNull |-> isNull, analysis |-> analysis, message |-> message, error |-> error,
   actions |-> actions]

AnalyzeEmpty == AnalyzeData(FALSE, << >>, << >>, << >>, << >>)

AnalyzeFailureText == << "file upload failed" >>

\* handleFileUploadAndAnalyze after `await resp.json()`.
AnalyzeOutcome(status, data) ==
  IF data.isNull
    THEN [msgs |-> << Bot(AnalyzeFailureText, << >>, << >>) >>, directive |-> << >>]
  ELSE IF status # "200"
    THEN [msgs |-> << Bot(<< "document analysis failed: ",
                             IF data.error # << >> THEN data.error[1] ELSE HttpText(status) >>,
                          << >>, << >>) >>,
          directive |-> << >>]
  ELSE LET result == Bot(IF data.analysis # << >> THEN << data.analysis[1] >>
                         ELSE IF data.message # << >> THEN << data.message[1] >>
                         ELSE << "analysis done" >>,
                         << >>, << >>)
           scan == HandleActions(data.actions)
       IN [msgs |-> IF scan.throws THEN << result, Bot(AnalyzeFailureText, << >>, << >>) >>
                    ELSE << result >>,
           directive |-> scan.directive]

\* ---- generate
\* An element of a list of ILOs in a response: a string, an object with
\* statement / text / content ("" when absent), or null.
StrElem(str) == [t |-> "string", statement |-> str, text |-> "", content |-> ""]

ObjElem(statement, text, content) ==
  [t |-> "object", statement |-> statement, text |-> text, content |-> content]

NullElem == [t |-> "null", statement |-> "", text |-> "", content |-> ""]

KeyOrder == << "ilos", "ILOs", "data", "results", "statements" >>

NoLists == [k \in Range(KeyOrder) |-> << >>]

\* A decoded body: kind "array" (list holds the elements), "object" (lists
\* holds the arrays under the five keys, << >> when absent) or "null"; raw
\* is its JSON text.
GenData(kind, raw, list, lists, error, details) ==
  [kind |-> kind, raw |-> raw, list |-> list, lists |-> lists, error |-> error,
   details |-> details]

\* `resp.json().catch(...)` gives { error: "..." } for an unparseable body.
GenParseError ==
  GenData("object", "{error}", << >>, NoLists, << "cannot parse the server response" >>, << >>)

\* `ilo.statement || ilo.text || ilo.content || ""`; a string has none of
\* the three properties.
ElemStatement(e) ==
  IF e.t = "string" THEN ""
  ELSE IF e.statement # "" THEN e.statement
  ELSE IF e.text # "" THEN e.text
  ELSE e.content

\* A normalization without the .filter(ilo => ilo.statement).
NormalizeKeepingEmpty(list, stringsAsStatements) ==
  [i \in 1..Len(list) |->
     [statement |-> IF stringsAsStatements /\ list[i].t = "string" THEN list[i].statement
                    ELSE ElemStatement(list[i])]]

\* The .map(...).filter(ilo => ilo.statement) of the two branches;
\* stringsAsStatements is the object branch's `typeof ilo === "string"` case.
Normalize(list, stringsAsStatements) ==
  LET stmt(e) == IF stringsAsStatements /\ e.t = "string" THEN e.statement
                 ELSE ElemStatement(e)
  IN SelectSeq([i \in 1..Len(list) |-> [statement |-> stmt(list[i])]],
               LAMBDA ilo : ilo.statement # "")

\* Reading a property of a null element throws a TypeError.
NormalizeThrows(list) == \E i \in 1..Len(list) : list[i].t = "null"

\* `data.ilos || data.ILOs || data.data || data.results || data.statements || []`
FirstList(lists) ==
  LET present == { i \in 1..Len(KeyOrder) : lists[KeyOrder[i]] # << >> }
  IN IF present = {} THEN << >>
     ELSE lists[KeyOrder[CHOOSE i \in present : \A j \in present : i <= j]][1]

\* The list generateILOs normalizes, for a 2xx body that is not null.
GenList(data) ==
  IF data.kind = "array" /\ Len(data.list) > 0 THEN data.list
  ELSE IF data.kind = "array" THEN << >>
  ELSE FirstList(data.lists)

GenFailureText == << "generation failed: try again later" >>

\* generateILOs after `await resp.json()`.
GenerateOutcome(status, data) ==
  IF status # "200"
    THEN IF data.kind = "null"
           THEN << Bot(GenFailureText, << >>, << >>) >>
           ELSE << Bot(<< "generation failed: ",
                          IF data.error # << >> THEN data.error[1]
                          ELSE IF data.details # << >> THEN data.details[1]
                          ELSE HttpText(status) >>, << >>, << >>) >>
  ELSE IF data.kind # "null" /\ NormalizeThrows(GenList(data))
    THEN << Bot(GenFailureText, << >>, << >>) >>
  ELSE LET ilosArray == IF data.kind = "null" THEN << >>
                        ELSE Normalize(GenList(data), data.kind = "object")
       IN IF Len(ilosArray) > 0
            THEN << Bot(<< "generated ILOs: ", ToString(Len(ilosArray)) >>, ilosArray, << >>) >>
            ELSE << Bot(<< "generation finished without valid ILOs; response: ", data.raw >>,
                        << >>, << >>) >>

\* ---- the continuations of the three flows
RECURSIVE AddAll(_, _)
AddAll(prev, msgs) ==
  IF msgs = << >> THEN prev
  ELSE AddAll(addMessage(prev, msgs[1].role, msgs[1].text, msgs[1].ilos,
                         msgs[1].suggestedQuestions), Tail(msgs))

\* A completion that also drops the requests issued before it.
RemoveThrough(s, i) == SubSeq(s, i + 1, Len(s))

\* The request at position i has settled and leaves the requests in flight.
RemoveAt(s, i) == SubSeq(s, 1, i - 1) \o SubSeq(s, i + 1, Len(s))

\* A finally that clears every busy flag, whichever flow completed.
FinallyClearsAll(kind) ==
  /\ isTyping' = FALSE
  /\ isUploading' = FALSE
  /\ isAnalyzing' = FALSE
  /\ isGeneratingILOs' = FALSE

\* A `finally` block that clears the typing flag for the chat flow only.
FinallyKeepsTyping(kind) ==
  /\ isTyping' = IF kind = "chat" THEN FALSE ELSE isTyping
  /\ isUploading' = IF kind = "analyze" THEN FALSE ELSE isUploading
  /\ isAnalyzing' = IF kind = "analyze" THEN FALSE ELSE isAnalyzing
  /\ isGeneratingILOs' = IF kind = "generate" THEN FALSE ELSE isGeneratingILOs

\* The `finally` block of the flow of the given kind.
Finally(kind) ==
  /\ isTyping' = IF kind \in {"chat", "analyze"} THEN FALSE ELSE isTyping
  /\ isUploading' = IF kind = "analyze" THEN FALSE ELSE isUploading
  /\ isAnalyzing' = IF kind = "analyze" THEN FALSE ELSE isAnalyzing
  /\ isGeneratingILOs' = IF kind = "generate" THEN FALSE ELSE isGeneratingILOs

\* The `catch` block of the flow of the given kind.
CatchText(kind) ==
  CASE kind = "chat"     -> ChatFailureText
    [] kind = "analyze"  -> AnalyzeFailureText
    [] kind = "generate" -> GenFailureText

\* `await fetch(...)` rejected: catch, then finally.
RequestFetchReject ==
  \E i \in 1..Len(net) :
    /\ net[i].stage = "fetch"
    /\ messages' = addMessage(messages, "bot", CatchText(net[i].kind), << >>, << >>)
    /\ Finally(net[i].kind)
    /\ net' = RemoveAt(net, i)
    /\ UNCHANGED << repoVars, selVars, depVars, inputValue, uploadedFile, actionTemplates >>

\* `await fetch(...)` resolved: the flow goes on to `await resp.json()`.
RequestFetchResolve ==
  \E i \in 1..Len(net) :
    /\ net[i].stage = "fetch"
    /\ net' = [net EXCEPT ![i].stage = "json"]
    /\ UNCHANGED << repoVars, selVars, depVars, messages, inputValue, uploadedFile,
                    busyVars, actionTemplates >>

\* What the flow of the given kind does with a response.
Outcome(kind, status, parseable, data) ==
  CASE kind = "chat" ->
         ChatOutcome(status, IF parseable THEN data ELSE ChatEmpty)
    [] kind = "analyze" ->
         AnalyzeOutcome(status, IF parseable THEN data ELSE AnalyzeEmpty)
    [] kind = "generate" ->
         [msgs |-> GenerateOutcome(status, IF parseable THEN data ELSE GenParseError),
          directive |-> << >>]

\* A response handling that also resets the topic.
RequestBodyResettingTopic(kind, status, parseable, data) ==
  \E i \in 1..Len(net) :
    /\ net[i].stage = "json"
    /\ net[i].kind = kind
    /\ LET out == Outcome(net[i].kind, status, parseable, data)
       IN /\ messages' = AddAll(messages, out.msgs)
          /\ actionTemplates' = IF out.directive # << >> THEN out.directive
                                ELSE actionTemplates
    /\ Finally(net[i].kind)
    /\ net' = RemoveAt(net, i)
    /\ topic' = ""
    /\ UNCHANGED << repoVars, selectedSubjectId, selectedGradeLevelId, selectedCategoryId,
                    cascadeVars, depVars, inputValue, uploadedFile >>

\* `await resp.json()` settled: the rest of the try block, then finally.
RequestBody(kind, status, parseable, data) ==
  \E i \in 1..Len(net) :
    /\ net[i].stage = "json"
    /\ net[i].kind = kind
    /\ LET out == Outcome(net[i].kind, status, parseable, data)
       IN /\ messages' = AddAll(messages, out.msgs)
          /\ actionTemplates' = IF out.directive # << >> THEN out.directive
                                ELSE actionTemplates
    /\ Finally(net[i].kind)
    /\ net' = RemoveAt(net, i)
    /\ UNCHANGED << repoVars, selVars, depVars, inputValue, uploadedFile >>

\* template-modal close: setActionTemplates(null)
CloseTemplates ==
  /\ EffectsFlushed
  /\ actionTemplates # << >>
  /\ actionTemplates' = << >>
  /\ UNCHANGED << repoVars, selVars, depVars, messages, inputValue, uploadedFile,
                  busyVars, net >>

\* --------------------------------------------------------- specifications
\* The conversation: the category endpoint answers, the base address stays,
\* the user types, attaches files, sets the topic, picks a category, sends
\* and generates.
InitConversation == Init /\ served = {"iloCategories"}

\* The category list the backend gives in the conversation, or a failure.
ConversationLists ==
  { [ok |-> TRUE, kind |-> "array", empty |-> FALSE],
    [ok |-> FALSE, kind |-> "errobj", empty |-> TRUE] }

\* payload.patterns, when present, is wrapped: << list >>.
ShowPatternActions ==
  << Action("noop", << >>),
     Action("show_pattern", << << [id |-> 1] >> >>),
     Action("show_pattern", << << [id |-> 2] >> >>) >>

Answer(kind, status, parseable, data) ==
  [kind |-> kind, status |-> status, parseable |-> parseable, data |-> data]

ResultsBody ==
  GenData("object", "{results:[A,{statement:B}]}", << >>,
          [NoLists EXCEPT !["results"] = << << StrElem("A"), ObjElem("B", "", "") >> >>],
          << >>, << >>)

NullElemBody == GenData("array", "[null]", << NullElem >>, NoLists, << >>, << >>)

\* One answer of each class per flow: 2xx with a usable body, 2xx with a
\* null action, non-2xx with an error body, unparseable.
ConversationAnswers ==
  { Answer("chat", "200", TRUE,
           ChatData(<< "hello" >>, << >>, << << "q" >> >>, << ShowPatternActions >>)),
    Answer("chat", "200", TRUE,
           ChatData(<< "hello" >>, << >>, << >>, << << NullAction >> >>)),
    Answer("chat", "500", TRUE, ChatData(<< >>, << "boom" >>, << >>, << >>)),
    Answer("chat", "200", FALSE, ChatEmpty),
    Answer("analyze", "200", TRUE,
           AnalyzeData(FALSE, << "analysis" >>, << >>, << >>, << >>)),
    Answer("analyze", "200", TRUE,
           AnalyzeData(FALSE, << "analysis" >>, << >>, << >>, << << NullAction >> >>)),
    Answer("analyze", "500", TRUE, AnalyzeData(FALSE, << >>, << >>, << "boom" >>, << >>)),
    Answer("analyze", "500", FALSE, AnalyzeEmpty),
    Answer("analyze", "200", TRUE, AnalyzeData(TRUE, << >>, << >>, << >>, << >>)),
    Answer("generate", "200", TRUE, ResultsBody),
    Answer("generate", "200", TRUE, NullElemBody),
    Answer("generate", "500", TRUE, ResultsBody),
    Answer("generate", "200", FALSE, ResultsBody) }

Next ==
  \/ \E r \in Repos : LoadFetchResolve(r)
  \/ \E r \in Repos : LoadFetchReject(r)
  \/ \E r \in Repos : LoadBody(r, ConversationLists)
  \/ FlushEffects
  \/ \E v \in {"", "hi"} : SetInput(v)
  \/ AttachFile
  \/ RemoveFile
  \/ \E t \in {"", "t"} : SetTopic(t)
  \/ SetCategory(2)
  \/ PressEnter
  \/ ClickSend
  \/ ClickSuggestedQuestion
  \/ ClickGenerate
  \/ RequestFetchReject
  \/ RequestFetchResolve
  \/ \E a \in ConversationAnswers : RequestBody(a.kind, a.status, a.parseable, a.data)
  \/ CloseTemplates

Spec == InitConversation /\ [][Next]_vars

\* Generation: the cascade without a change of base address, plus the
\* topic and the generation flow.
GenerationAnswers ==
  { Answer("generate", "200", TRUE, ResultsBody),
    Answer("generate", "500", TRUE, ResultsBody) }

NextGeneration ==
  \/ \E r \in Repos : LoadFetchResolve(r)
  \/ \E r \in Repos : LoadFetchReject(r)
  \/ \E r \in Repos : LoadBody(r, ConversationLists)
  \/ FlushEffects
  \/ \E t \in Topics : SetTopic(t)
  \/ \E id \in 1..4 : SetCategory(id)
  \/ SetBloomLevel
  \/ SetVerb
  \/ ClickGenerate
  \/ RequestFetchReject
  \/ RequestFetchResolve
  \/ \E a \in GenerationAnswers : RequestBody(a.kind, a.status, a.parseable, a.data)

SpecGeneration == InitCascade /\ [][NextGeneration]_vars

\* The handler generateILOs on its own: it is applied in every state of
\* the values it reads (topic, category list, selected category, Bloom
\* level and verb) that the cascade can leave behind, whatever the generate
\* button shows.
InitHandler ==
  /\ apiBase = 0
  /\ \E cats \in {<< >>, CategoriesOf(0)} :
       items = [r \in Repos |-> CASE r = "iloCategories" -> cats
                                  [] r = "bloomLevels" -> BloomLevelsOf(0)
                                  [] OTHER -> << >>]
  /\ ver = [r \in Repos |-> 1]
  /\ loading = [r \in Repos |-> FALSE]
  /\ loads = [r \in Repos |-> {}]
  /\ served = {"iloCategories", "bloomLevels"}
  /\ topic \in Topics
  /\ selectedSubjectId = Null
  /\ selectedGradeLevelId = Null
  /\ selectedCategoryId \in {Null} \cup AllIds
  /\ selectedBloomLevelId \in {Null} \cup { BloomLevelsOf(0)[i].id : i \in 1..Len(BloomLevelsOf(0)) }
  /\ (selectedCategoryId = Null \/ CategoryEffectClears(selectedCategoryId, iloCategories))
       => selectedBloomLevelId = Null
  /\ availableVerbs = BloomEffect(selectedBloomLevelId, bloomLevels).availableVerbs
  /\ selectedVerbId \in SelectOptions(FALSE, availableVerbs)
  /\ catDeps = CurCatDeps
  /\ bloomDeps = CurBloomDeps
  /\ messages = addMessage(<< >>, "bot", GreetingText, << >>, << >>)
  /\ inputValue = ""
  /\ uploadedFile = "none"
  /\ isTyping = FALSE
  /\ isUploading = FALSE
  /\ isAnalyzing = FALSE
  /\ isGeneratingILOs = FALSE
  /\ actionTemplates = << >>
  /\ net = << >>

NextHandler ==
  \/ generateILOs
  \/ \E t \in Topics : SetTopic(t)
  \/ RequestFetchReject
  \/ RequestFetchResolve
  \/ \E a \in GenerationAnswers : RequestBody(a.kind, a.status, a.parseable, a.data)

SpecHandler == InitHandler /\ [][NextHandler]_vars

\* The chat and analyze flows against every class of response: the lists
\* never answer, the user types, attaches and removes files and submits.
InitResponses == Init /\ served = {}

\* An action element that names its presentation and context.
ActionWithUi(type, patterns, presentation, context) ==
  [Action(type, patterns) EXCEPT !.presentation = << presentation >>,
                                 !.context = << context >>]

\* show_pattern without payload.patterns, then two with it.
LaterPatternActions ==
  << Action("show_pattern", << >>),
     ActionWithUi("show_pattern", << << [id |-> 2] >> >>, "inline", "X"),
     Action("show_pattern", << << [id |-> 1] >> >>) >>

NullThenPatternActions ==
  << NullAction, Action("show_pattern", << << [id |-> 1] >> >>) >>

ChatAnswers ==
  { Answer("chat", "200", TRUE,
           ChatData(<< "hello" >>, << >>, << << "q" >> >>, << ShowPatternActions >>)),
    Answer("chat", "200", TRUE,
           ChatData(<< "hello" >>, << "boom" >>, << >>, << LaterPatternActions >>)),
    Answer("chat", "200", TRUE, ChatData(<< "" >>, << >>, << << "q" >> >>, << >>)),
    Answer("chat", "200", TRUE,
           ChatData(<< "hello" >>, << >>, << >>, << NullThenPatternActions >>)),
    Answer("chat", "200", FALSE, ChatEmpty),
    Answer("chat", "500", TRUE,
           ChatData(<< "sorry" >>, << "boom" >>, << << "q" >> >>, << ShowPatternActions >>)),
    Answer("chat", "500", TRUE, ChatData(<< >>, << "boom" >>, << >>, << >>)),
    Answer("chat", "500", TRUE, ChatData(<< "" >>, << >>, << >>, << >>)),
    Answer("chat", "500", FALSE, ChatEmpty) }

AnalyzeAnswers ==
  { Answer("analyze", "200", TRUE,
           AnalyzeData(FALSE, << "analysis" >>, << "msg" >>, << >>, << ShowPatternActions >>)),
    Answer("analyze", "200", TRUE,
           AnalyzeData(FALSE, << >>, << "msg" >>, << >>, << LaterPatternActions >>)),
    Answer("analyze", "200", TRUE, AnalyzeData(FALSE, << >>, << >>, << >>, << >>)),
    Answer("analyze", "200", TRUE,
           AnalyzeData(FALSE, << "analysis" >>, << >>, << >>, << NullThenPatternActions >>)),
    Answer("analyze", "200", TRUE, AnalyzeData(TRUE, << >>, << >>, << >>, << >>)),
    Answer("analyze", "200", FALSE, AnalyzeEmpty),
    Answer("analyze", "500", TRUE, AnalyzeData(FALSE, << >>, << >>, << "boom" >>, << >>)),
    Answer("analyze", "500", FALSE, AnalyzeEmpty) }

NextResponses ==
  \/ \E v \in {"", " ", "hi"} : SetInput(v)
  \/ AttachFile
  \/ RemoveFile
  \/ PressEnter
  \/ ClickSuggestedQuestion
  \/ RequestFetchReject
  \/ RequestFetchResolve
  \/ \E a \in ChatAnswers \cup AnalyzeAnswers :
       RequestBody(a.kind, a.status, a.parseable, a.data)
  \/ CloseTemplates

SpecResponses == InitResponses /\ [][NextResponses]_vars

\* The three flows against responses with and without a matching action:
\* the user submits texts and files and generates, the server answers each
\* flow, and the user closes the template dialog.
NoPatternActions ==
  << Action("noop", << << [id |-> 1] >> >>), Action("show_pattern", << >>) >>

DirectiveAnswers ==
  ChatAnswers \cup AnalyzeAnswers \cup GenerationAnswers \cup
  { Answer("chat", "200", TRUE,
           ChatData(<< "hello" >>, << >>, << >>, << NoPatternActions >>)),
    Answer("analyze", "200", TRUE,
           AnalyzeData(FALSE, << "analysis" >>, << >>, << >>, << NoPatternActions >>)) }

NextDirective ==
  \/ \E r \in Repos : LoadFetchResolve(r)
  \/ \E r \in Repos : LoadBody(r, ConversationLists)
  \/ FlushEffects
  \/ SetInput("hi")
  \/ AttachFile
  \/ SetTopic("t")
  \/ SetCategory(2)
  \/ PressEnter
  \/ ClickGenerate
  \/ RequestFetchReject
  \/ RequestFetchResolve
  \/ \E a \in DirectiveAnswers : RequestBody(a.kind, a.status, a.parseable, a.data)
  \/ CloseTemplates

SpecDirective == InitConversation /\ [][NextDirective]_vars

\* A long conversation: the user sends one chat message after another and
\* the server answers with a reply, with a whitespace-only reply, or not at
\* all, until the history is longer than the window of the request.
HistoryAnswers ==
  { Answer("chat", "200", TRUE, ChatData(<< "hello" >>, << >>, << >>, << >>)),
    Answer("chat", "200", TRUE, ChatData(<< " " >>, << >>, << >>, << >>)) }

NextHistory ==
  \/ SetInput("hi")
  \/ PressEnterLong
  \/ RequestFetchReject
  \/ RequestFetchResolve
  \/ \E a \in HistoryAnswers : RequestBody(a.kind, a.status, a.parseable, a.data)

SpecHistory == InitResponses /\ [][NextHistory]_vars

\* The generation flow against every shape of response body.
ObjectBody(raw, key, list) ==
  GenData("object", raw, << >>, [NoLists EXCEPT ![key] = << list >>], << >>, << >>)

ArrayBody(raw, list) == GenData("array", raw, list, NoLists, << >>, << >>)

NormalizationBodies ==
  { ArrayBody("[{statement:A},{text:B},{content:C},{statement:''},{statement:D,text:E}]",
              << ObjElem("A", "", ""), ObjElem("", "B", ""), ObjElem("", "", "C"),
                 ObjElem("", "", ""), ObjElem("D", "E", "") >>),
    ArrayBody("[A,B]", << StrElem("A"), StrElem("B") >>),
    ArrayBody("[A,{statement:B}]", << StrElem("A"), ObjElem("B", "", "") >>),
    ArrayBody("[]", << >>),
    ArrayBody("[{statement:''}]", << ObjElem("", "", "") >>),
    NullElemBody,
    ResultsBody,
    ObjectBody("{ILOs:[{text:A},'',B]}", "ILOs",
               << ObjElem("", "A", ""), StrElem(""), StrElem("B") >>),
    GenData("object", "{ilos:[{content:A}],data:[B]}", << >>,
            [NoLists EXCEPT !["ilos"] = << << ObjElem("", "", "A") >> >>,
                            !["data"] = << << StrElem("B") >> >>],
            << >>, << >>),
    GenData("object", "{data:[],statements:[A]}", << >>,
            [NoLists EXCEPT !["data"] = << << >> >>,
                            !["statements"] = << << StrElem("A") >> >>],
            << >>, << >>),
    ObjectBody("{statements:[{statement:''},'']}", "statements",
               << ObjElem("", "", ""), StrElem("") >>),
    ObjectBody("{results:[null]}", "results", << NullElem >>),
    GenData("object", "{}", << >>, NoLists, << >>, << >>),
    GenData("null", "null", << >>, NoLists, << >>, << >>) }

NormalizationAnswers ==
  { Answer("generate", "200", TRUE, d) : d \in NormalizationBodies }
  \cup { Answer("generate", "200", FALSE, ResultsBody),
         Answer("generate", "500", TRUE, ResultsBody) }

NextNormalization ==
  \/ ClickGenerate
  \/ \E t \in Topics : SetTopic(t)
  \/ RequestFetchReject
  \/ RequestFetchResolve
  \/ \E a \in NormalizationAnswers : RequestBody(a.kind, a.status, a.parseable, a.data)

SpecNormalization == InitHandler /\ [][NextNormalization]_vars

\* The default selections: the endpoint of subjects or of grade levels and
\* one of the other three endpoints answer, the base address may change,
\* and the user picks a subject and a grade, or sets them back to none.
InitDefaults ==
  /\ Init
  /\ \E r \in {"subjects", "gradeLevels"} :
       \E q \in {"iloCategories", "iloPatterns", "bloomLevels"} : served = {r, q}

DefaultLists ==
  { [ok |-> TRUE, kind |-> "array", empty |-> FALSE],
    [ok |-> TRUE, kind |-> "array", empty |-> TRUE],
    [ok |-> FALSE, kind |-> "array", empty |-> FALSE],
    [ok |-> FALSE, kind |-> "errobj", empty |-> TRUE] }

NextDefaults ==
  \/ ChangeBaseUrl
  \/ \E r \in Repos : LoadFetchResolve(r)
  \/ \E r \in Repos : LoadFetchReject(r)
  \/ \E r \in Repos : LoadBody(r, DefaultLists)
  \/ FlushEffects
  \/ SetSubject
  \/ SetGrade

SpecDefaults == InitDefaults /\ [][NextDefaults]_vars

\* One list endpoint answers, in every way it can, also after changes of the
\* base address.
InitRefresh == Init /\ \E r \in Repos : served = {r}

NextRefresh ==
  \/ ChangeBaseUrl
  \/ \E r \in Repos : LoadFetchResolve(r)
  \/ \E r \in Repos : LoadFetchReject(r)
  \/ \E r \in Repos : LoadBody(r, ListClasses)
  \/ FlushEffects
  \/ SetSubject
  \/ SetGrade

SpecRefresh == InitRefresh /\ [][NextRefresh]_vars

\* The selection panel: the endpoints of subjects, grade levels, categories
\* and Bloom levels answer with their lists, and the user types a topic and
\* picks a subject, a grade, a category, a Bloom level and a verb.
InitSelection ==
  Init /\ served = {"subjects", "gradeLevels", "iloCategories", "bloomLevels"}

SelectionLists == { [ok |-> TRUE, kind |-> "array", empty |-> FALSE] }

NextSelection ==
  \/ \E r \in Repos : LoadFetchResolve(r)
  \/ \E r \in Repos : LoadBody(r, SelectionLists)
  \/ FlushEffects
  \/ \E t \in Topics : SetTopic(t)
  \/ SetSubject
  \/ SetGrade
  \/ \E id \in 1..2 : SetCategory(id)
  \/ SetBloomLevel
  \/ SetVerb

SpecSelection == InitSelection /\ [][NextSelection]_vars

\* The lists come from one of the translated backends; the user fills the
\* generation form and generates.
InitLocale ==
  /\ apiBase \in TranslatedBackends
  /\ items = [r \in Repos |-> << >>]
  /\ ver = [r \in Repos |-> 0]
  /\ loading = [r \in Repos |-> TRUE]
  /\ loads = [r \in Repos |-> { [base |-> apiBase, cancelled |-> FALSE, stage |-> "fetch"] }]
  /\ served = Repos
  /\ topic = ""
  /\ selectedSubjectId = Null
  /\ selectedGradeLevelId = Null
  /\ selectedCategoryId = Null
  /\ selectedBloomLevelId = Null
  /\ availableVerbs = << >>
  /\ selectedVerbId = Null
  /\ catDeps = [id |-> Null, ver |-> 0]
  /\ bloomDeps = [id |-> Null, ver |-> 0]
  /\ messages = addMessage(<< >>, "bot", GreetingText, << >>, << >>)
  /\ inputValue = ""
  /\ uploadedFile = "none"
  /\ isTyping = FALSE
  /\ isUploading = FALSE
  /\ isAnalyzing = FALSE
  /\ isGeneratingILOs = FALSE
  /\ actionTemplates = << >>
  /\ net = << >>

NextLocale ==
  \/ \E r \in Repos : LoadFetchResolve(r)
  \/ \E r \in Repos : LoadBody(r, SelectionLists)
  \/ FlushEffects
  \/ SetTopic("t")
  \/ SetCategory(1)
  \/ SetBloomLevel
  \/ SetVerb
  \/ ClickGenerate

SpecLocale == InitLocale /\ [][NextLocale]_vars

\* The lists are loaded from a second address of the backend at 0, the user
\* fills the cascade, and the base address changes to 0 and on.
InitRefetch ==
  /\ apiBase = -1
  /\ items = [r \in Repos |-> << >>]
  /\ ver = [r \in Repos |-> 0]
  /\ loading = [r \in Repos |-> TRUE]
  /\ loads = [r \in Repos |-> { [base |-> apiBase, cancelled |-> FALSE, stage |-> "fetch"] }]
  /\ served = {"iloCategories", "bloomLevels"}
  /\ topic = ""
  /\ selectedSubjectId = Null
  /\ selectedGradeLevelId = Null
  /\ selectedCategoryId = Null
  /\ selectedBloomLevelId = Null
  /\ availableVerbs = << >>
  /\ selectedVerbId = Null
  /\ catDeps = [id |-> Null, ver |-> 0]
  /\ bloomDeps = [id |-> Null, ver |-> 0]
  /\ messages = addMessage(<< >>, "bot", GreetingText, << >>, << >>)
  /\ inputValue = ""
  /\ uploadedFile = "none"
  /\ isTyping = FALSE
  /\ isUploading = FALSE
  /\ isAnalyzing = FALSE
  /\ isGeneratingILOs = FALSE
  /\ actionTemplates = << >>
  /\ net = << >>

NextRefetch ==
  \/ ChangeBaseUrl
  \/ \E r \in Repos : LoadFetchResolve(r)
  \/ \E r \in Repos : LoadBody(r, SelectionLists)
  \/ FlushEffects
  \/ \E id \in 1..3 : SetCategory(id)
  \/ SetBloomLevel
  \/ SetVerb

SpecRefetch == InitRefetch /\ [][NextRefetch]_vars

\* A category is selected, the category list is loaded again from another
\* base address, and the user clicks the generate button.
NextStale ==
  \/ ChangeBaseUrl
  \/ \E r \in Repos : LoadFetchResolve(r)
  \/ \E r \in Repos : LoadFetchReject(r)
  \/ \E r \in Repos : LoadBody(r, ConversationLists)
  \/ FlushEffects
  \/ \E t \in Topics : SetTopic(t)
  \/ \E id \in 1..2 : SetCategory(id)
  \/ ClickGenerate
  \/ RequestFetchReject
  \/ RequestFetchResolve
  \/ \E a \in GenerationAnswers : RequestBody(a.kind, a.status, a.parseable, a.data)

SpecStale == InitConversation /\ [][NextStale]_vars

\* Independence of the loads: the subjects endpoint never answers, the
\* other four answer in every way, and the user chats and generates
\* meanwhile. Every fetch of an endpoint that answers settles, every body
\* arrives, and React flushes the passive effects of every commit.
InitIndependence == Init /\ served = Repos \ {"subjects"}

IndependenceLists ==
  { [ok |-> TRUE, kind |-> "array", empty |-> FALSE],
    [ok |-> FALSE, kind |-> "array", empty |-> FALSE],
    [ok |-> TRUE, kind |-> "errobj", empty |-> TRUE],
    [ok |-> TRUE, kind |-> "unparseable", empty |-> TRUE] }

IndependenceAnswers ==
  { Answer("chat", "200", TRUE, ChatData(<< "hello" >>, << >>, << >>, << >>)),
    Answer("generate", "200", TRUE, ResultsBody) }

RequestAnswered ==
  \E a \in IndependenceAnswers : RequestBody(a.kind, a.status, a.parseable, a.data)

\* What the network and React do on their own.
Environment ==
  \/ \E r \in Repos : LoadFetchResolve(r)
  \/ \E r \in Repos : LoadFetchReject(r)
  \/ \E r \in Repos : LoadBody(r, IndependenceLists)
  \/ FlushEffects
  \/ RequestFetchReject
  \/ RequestFetchResolve
  \/ RequestAnswered

NextIndependence ==
  \/ Environment
  \/ SetInput("hi")
  \/ SetTopic("t")
  \/ SetCategory(2)
  \/ Len(messages) < MaxLoadMsgs /\ PressEnter
  \/ Len(messages) < MaxLoadMsgs /\ ClickGenerate

SpecIndependence ==
  InitIndependence /\ [][NextIndependence]_vars /\ WF_vars(Environment)

\* ------------------------------------------------------------ properties
\* Write-path requests of the given kinds among the requests in flight.
InFlight(n, kinds) == Cardinality({ i \in 1..Len(n) : n[i].kind \in kinds })

UserCount(msgs) == Cardinality({ i \in 1..Len(msgs) : msgs[i].role = "user" })

Submits == {"chat", "analyze"}

\* C1: in every reachable state at most one of the chat, analyze and
\* generation requests is in flight.
C1_AtMostOneInFlight == Len(net) <= 1

\* C2: while the response of a chat (or analyze) request has not arrived, no
\* step appends a user message, issues another chat or analyze request or
\* replaces the pending one; the text of a dropped submit is therefore never
\* sent.
C2_SecondSubmitDropped ==
  [][InFlight(net, Submits) > 0 =>
       /\ UserCount(messages') = UserCount(messages)
       /\ InFlight(net', Submits) <= InFlight(net, Submits)
       /\ \A i \in 1..Len(net') :
            net'[i].kind \in Submits => \E j \in 1..Len(net) : net[j].body = net'[i].body]_vars

\* A chat request is pending, the user has typed a new text and is typing
\* no more: the next Enter is the second submit.
C2_SecondSubmitWhilePending ==
  /\ \E i \in 1..Len(net) : net[i].kind = "chat" /\ net[i].stage = "fetch"
  /\ isTyping
  /\ Trim(inputValue) # ""
  /\ EffectsFlushed
  /\ Len(messages) < MaxMsgs
  /\ Len(net) < MaxInflight

\* C3: every write to a repository's items is made by a load that has not
\* been superseded.
C3_StaleLoadNeverWrites ==
  [][\A r \in Repos :
       ver'[r] # ver[r] => \E l \in loads[r] \ loads'[r] : ~l.cancelled]_vars

\* C4: once the network call of a chat, analyze or generation request has
\* completed, in whatever way, the busy flags its flow set are cleared: with
\* no chat or analyze request in flight isTyping, isUploading and
\* isAnalyzing are false, with no generation in flight isGeneratingILOs is.
C4_BusyFlagsCleared ==
  /\ InFlight(net, Submits) = 0 => ~isTyping /\ ~isUploading /\ ~isAnalyzing
  /\ InFlight(net, {"generate"}) = 0 => ~isGeneratingILOs

\* A request failed, its failure message is in the history, and a submit
\* made after it was accepted.
C4_SubmitAcceptedAfterFailure ==
  \E i \in 2..Len(messages) : \E j \in 2..Len(messages) :
    /\ i < j
    /\ messages[i].role = "bot"
    /\ messages[i].text \in {ChatFailureText, AnalyzeFailureText, << "boom" >>}
    /\ messages[j].role = "user"
    /\ InFlight(net, Submits) = 1

\* C5: the completion of a request appends exactly one message to the
\* history, a bot message.
C5_ExactlyOneBotMessage ==
  [][Len(net') < Len(net) =>
       /\ Len(messages') = Len(messages) + 1
       /\ messages'[Len(messages')].role = "bot"]_vars

\* C6: every step leaves the messages of the history where they are and
\* adds only at the end.
C6_AppendOnly ==
  [][/\ Len(messages') >= Len(messages)
     /\ SubSeq(messages', 1, Len(messages)) = messages]_vars

\* The history holds the greeting, a user message, the bot message of a
\* chat reply and the bot message of a generation with its ILOs.
C6_MixedHistory ==
  /\ Len(messages) >= MaxMsgs
  /\ \E i \in 2..Len(messages) : messages[i].role = "user"
  /\ \E i \in 2..Len(messages) : messages[i].role = "bot" /\ messages[i].text = << "hello" >>
  /\ \E i \in 2..Len(messages) : messages[i].role = "bot" /\ messages[i].ilos # << >>

\* C7: selectedVerbId is unset or the id of an entry of availableVerbs, in
\* every reachable state.
C7_VerbInAvailableVerbs ==
  \/ selectedVerbId = Null
  \/ \E i \in 1..Len(availableVerbs) : availableVerbs[i].id = selectedVerbId

\* A verb is selected, the Bloom level has been changed to another one and
\* the recomputation has not run yet.
C7_VerbSetWhileRecomputationPending ==
  /\ selectedVerbId # Null
  /\ BloomEffectPending
  /\ selectedBloomLevelId # bloomDeps.id
  /\ bloomDeps.id # Null

\* The selected category is in the list and its show_bloom_taxonomy is false.
HiddenCategorySelected ==
  /\ selectedCategoryId # Null
  /\ FindById(iloCategories, selectedCategoryId) # << >>
  /\ ~FindById(iloCategories, selectedCategoryId)[1].show_bloom_taxonomy

BloomCleared ==
  selectedBloomLevelId = Null /\ selectedVerbId = Null /\ availableVerbs = << >>

\* C8: once the effects of selecting a category whose show_bloom_taxonomy is
\* false have run, the Bloom level, the verb and availableVerbs are cleared.
C8_HiddenCategoryClearsBloom ==
  (EffectsFlushed /\ HiddenCategorySelected) => BloomCleared

\* The category effect has just cleared a Bloom level that was selected
\* under the previous category: the Bloom effect still remembers it.
C8_ClearedAfterPreviousSelection ==
  /\ HiddenCategorySelected
  /\ ~CatEffectPending
  /\ BloomCleared
  /\ bloomDeps.id # Null

\* C9: when the recomputation for a changed Bloom level runs, a null level
\* leaves availableVerbs empty and the verb unset; a level of the list leaves
\* availableVerbs equal to that level's verb list, and the verb set to the
\* first verb's id, or unset when the list is empty.
C9_BloomLevelReplacesVerbs ==
  [][(BloomEffectPending /\ bloomDeps' # bloomDeps) =>
       LET level == FindById(bloomLevels, selectedBloomLevelId)
       IN /\ selectedBloomLevelId = Null =>
               availableVerbs' = << >> /\ selectedVerbId' = Null
          /\ (selectedBloomLevelId # Null /\ level # << >>) =>
               /\ availableVerbs' = level[1].bloom_taxonomy_verbs
               /\ selectedVerbId' =
                    IF Len(level[1].bloom_taxonomy_verbs) > 0
                      THEN level[1].bloom_taxonomy_verbs[1].id
                      ELSE Null]_vars

\* The second Bloom level is selected and the recomputation has run: its
\* one verb is the list and is selected.
C9_SecondLevelSelected ==
  /\ EffectsFlushed
  /\ selectedBloomLevelId = 2
  /\ bloomLevels = BloomLevelsOf(0)
  /\ Len(availableVerbs) = 1
  /\ selectedVerbId = 3

\* The readiness predicate of generation.
Ready ==
  /\ Trim(topic) # ""
  /\ selectedCategoryId # Null
  /\ LET category == FindById(iloCategories, selectedCategoryId)
     IN /\ category # << >>
        /\ \/ ~category[1].show_bloom_taxonomy
           \/ ~category[1].require_bloom_taxonomy
           \/ selectedBloomLevelId # Null /\ selectedVerbId # Null

\* C10: a step that issues a generation request starts in a state where the
\* readiness predicate holds.
C10_GenerateOnlyWhenReady ==
  [][InFlight(net', {"generate"}) > InFlight(net, {"generate"}) => Ready]_vars

\* A generation request was issued for a category that requires the Bloom
\* taxonomy, with a Bloom level and a verb selected.
C10_GenerationIssuedWithVerb ==
  \E i \in 1..Len(net) :
    /\ net[i].kind = "generate"
    /\ net[i].body.bloom_level # ""
    /\ net[i].body.action_verb # ""

GenerateIssued == InFlight(net', {"generate"}) > InFlight(net, {"generate"})

\* C11: a click on the generate button in a state where the readiness
\* predicate holds and no generation is in flight issues a request and adds
\* no message.
C11_ReadyAttemptIssues ==
  [][(ClickGenerate /\ Ready /\ ~isGeneratingILOs) =>
       (GenerateIssued /\ messages' = messages)]_vars

\* The condition the claim's order reports first.
FirstViolated ==
  IF Trim(topic) = "" THEN "topic"
  ELSE IF selectedCategoryId = Null THEN "category"
  ELSE IF selectedBloomLevelId = Null THEN "bloom"
  ELSE "verb"

\* The order with the selected category that is not in the list.
FirstViolatedOrUnknown ==
  IF Trim(topic) = "" THEN "topic"
  ELSE IF selectedCategoryId = Null THEN "category"
  ELSE IF FindById(iloCategories, selectedCategoryId) = << >> THEN "invalid_category"
  ELSE IF selectedBloomLevelId = Null THEN "bloom"
  ELSE "verb"

\* The step adds one message to the history, the validation message v, and
\* issues nothing.
ReportsOnly(v) ==
  /\ net' = net
  /\ messages' = addMessage(messages, "bot", ValidationText(v), << >>, << >>)

\* C12 as stated: a call of generateILOs in a state that is not ready adds
\* exactly one validation message, that of the first violated condition in
\* the order topic, category, Bloom level, verb, and issues no request.
C12_NotReadyAttemptReports ==
  [][(generateILOs /\ ~Ready) => ReportsOnly(FirstViolated)]_vars

\* C12 amended: a call of generateILOs in a state that is not ready, with no
\* generation in flight, adds exactly one validation message and issues no
\* request; the message is that of the first violated condition in the order
\* topic, category, selected category not in the list, Bloom level, verb.
C12_NotReadyAttemptReportsAmended ==
  [][(generateILOs /\ ~Ready /\ ~isGeneratingILOs) =>
       ReportsOnly(FirstViolatedOrUnknown)]_vars

\* Two attempts were made while not ready: one with a blank topic and a
\* selected category, one with a topic and a category that is not in the
\* list; each left its message.
C12_TopicThenUnknownCategoryReported ==
  /\ Len(messages) = 3
  /\ messages[2].text = ValidationText("topic")
  /\ messages[3].text = ValidationText("invalid_category")
  /\ ~Ready
  /\ net = << >>

\* C13: with a topic, no generation in flight and a selected category that
\* requires the Bloom taxonomy and does not show it, the generate button is
\* enabled.
C13_HiddenRequiredCategoryAllowed ==
  (/\ EffectsFlushed
   /\ Trim(topic) # ""
   /\ ~isGeneratingILOs
   /\ HiddenCategorySelected
   /\ FindById(iloCategories, selectedCategoryId)[1].require_bloom_taxonomy)
  => ~GenerateDisabled

\* The step issues a request of the given kind.
Issued(kind) == InFlight(net', {kind}) > InFlight(net, {kind})

\* The text and the suggested questions the claims expect of a chat answer.
ReplyTextOf(a) ==
  IF a.parseable /\ a.data.text # << >> /\ a.data.text[1] # ""
    THEN << a.data.text[1] >> ELSE << >>

SuggestedOf(a) ==
  IF a.parseable /\ a.data.suggested_questions # << >>
    THEN a.data.suggested_questions[1] ELSE << >>

\* C14: an accepted chat submit appends one user message with the submitted
\* text, and its 2xx response appends one bot message with the reply text,
\* or the placeholder when there is none, and the suggested questions.
C14_ChatRoundTrip ==
  [][/\ (PressEnter /\ Issued("chat")) =>
          messages' = addMessage(messages, "user", << Trim(inputValue) >>, << >>, << >>)
     /\ \A a \in ChatAnswers :
          (a.status = "200" /\ RequestBody(a.kind, a.status, a.parseable, a.data)) =>
            messages' = addMessage(messages, "bot",
                                   IF ReplyTextOf(a) # << >> THEN ReplyTextOf(a)
                                   ELSE ChatPlaceholder,
                                   << >>, SuggestedOf(a))]_vars

\* C15: a non-2xx chat response appends one bot message whose text is the
\* reply text if non-empty, else the error field, else the literal with
\* HTTP and the status; the typing flag is cleared and the request is gone.
C15_ChatErrorText ==
  [][\A a \in ChatAnswers :
       (a.status # "200" /\ RequestBody(a.kind, a.status, a.parseable, a.data)) =>
         /\ messages' =
              addMessage(messages, "bot",
                         IF ReplyTextOf(a) # << >> THEN ReplyTextOf(a)
                         ELSE IF a.parseable /\ a.data.error # << >> THEN << a.data.error[1] >>
                         ELSE << "server error: ", HttpText(a.status) >>,
                         << >>, << >>)
         /\ ~isTyping'
         /\ InFlight(net', Submits) = 0]_vars

\* A 500 response carrying both a reply text and an error has been shown by
\* its reply text, the engine is idle, and the next submit was accepted.
C15_ReplyTextShownForError ==
  \E i \in 2..Len(messages) :
    /\ messages[i].role = "bot"
    /\ messages[i].text = << "sorry" >>
    /\ i < Len(messages)
    /\ messages[Len(messages)].role = "user"

\* The first element of an actions array that is a show_pattern action with
\* payload.patterns; 0 when there is none.
FirstMatch(actions) ==
  LET hits == { i \in 1..Len(actions) :
                  /\ ~actions[i].isNull
                  /\ actions[i].action_type = "show_pattern"
                  /\ actions[i].patterns # << >> }
  IN IF hits = {} THEN 0 ELSE CHOOSE i \in hits : \A j \in hits : i <= j

DirectiveOf(action) ==
  [patterns |-> action.patterns[1],
   presentation |-> IF action.presentation = << >> THEN "popup" ELSE action.presentation[1],
   context |-> IF action.context = << >> THEN "ILO" ELSE action.context[1]]

\* C16: a 2xx chat or analyze response with an actions array sets the
\* directive to the one of the first show_pattern element with
\* payload.patterns, in place of the previous one.
C16_FirstMatchingActionWins ==
  [][\A a \in ChatAnswers \cup AnalyzeAnswers :
       (/\ a.status = "200"
        /\ a.parseable
        /\ (a.kind = "chat" \/ ~a.data.isNull)
        /\ a.data.actions # << >>
        /\ FirstMatch(a.data.actions[1]) # 0
        /\ RequestBody(a.kind, a.status, a.parseable, a.data)) =>
         actionTemplates' =
           << DirectiveOf(a.data.actions[1][FirstMatch(a.data.actions[1])]) >>]_vars

\* C17: the step that issues an analyze request sends the pending file and
\* clears it, and only attaching a file sets a pending file.
C17_FileClearedOnSubmit ==
  [][/\ Issued("analyze") =>
          /\ uploadedFile # "none"
          /\ net'[Len(net')].body.file = uploadedFile
          /\ uploadedFile' = "none"
     /\ (uploadedFile' # uploadedFile /\ uploadedFile' # "none") => AttachFile]_vars

\* An analyze call has failed and the file is still cleared.
C17_FileClearedAfterFailure ==
  /\ uploadedFile = "none"
  /\ net = << >>
  /\ Len(messages) = 3
  /\ messages[2].text = << "FILE: ", "f1" >>
  /\ messages[3].text = AnalyzeFailureText

\* The result text the claim expects of a 2xx analyze answer.
AnalysisTextOf(a) ==
  IF a.parseable /\ ~a.data.isNull /\ a.data.analysis # << >> THEN << a.data.analysis[1] >>
  ELSE IF a.parseable /\ ~a.data.isNull /\ a.data.message # << >> THEN << a.data.message[1] >>
  ELSE << "analysis done" >>

\* C18: an accepted submit with a pending file issues no chat request and
\* one analyze request, appends the text as a user message when it is not
\* blank and then the file-reference user message; a 2xx answer appends one
\* bot message: the analysis field, else the message field, else the
\* literal.
C18_FileSubmitAnalyzes ==
  [][/\ (PressEnter /\ uploadedFile # "none" /\ ~isTyping) =>
          /\ ~Issued("chat")
          /\ InFlight(net', {"analyze"}) = InFlight(net, {"analyze"}) + 1
          /\ messages' =
               addMessage(IF Trim(inputValue) # ""
                            THEN addMessage(messages, "user", << Trim(inputValue) >>, << >>, << >>)
                            ELSE messages,
                          "user", << "FILE: ", uploadedFile >>, << >>, << >>)
     /\ \A a \in AnalyzeAnswers :
          (a.status = "200" /\ RequestBody(a.kind, a.status, a.parseable, a.data)) =>
            messages' = addMessage(messages, "bot", AnalysisTextOf(a), << >>, << >>)]_vars

\* C19: Enter with an empty or whitespace-only input and no pending file
\* changes nothing.
C19_BlankSubmitChangesNothing ==
  [][(PressEnter /\ Trim(inputValue) = "" /\ uploadedFile = "none") => UNCHANGED vars]_vars

\* After a round trip the input holds only whitespace, no file is pending
\* and the engine is idle: Enter is a blank submit.
C19_BlankSubmitPossible ==
  /\ inputValue = " "
  /\ uploadedFile = "none"
  /\ ~isTyping
  /\ Len(messages) = 3
  /\ messages[2].role = "user"
  /\ EffectsFlushed
  /\ SubmitBounded

\* The positions of the last HistoryWindow messages whose text is not blank.
WindowKept(msgs) ==
  { i \in 1..Len(msgs) : i > Len(msgs) - HistoryWindow /\ ~IsBlank(msgs[i].text) }

\* C20: the conversation_history of a chat request has at most 10 entries;
\* they are the messages among the last 10 of the history whose text is not
\* blank, oldest first, with role "bot" sent as "assistant", every other
\* role kept and the text as content.
C20_HistoryWindow ==
  [][Issued("chat") =>
       LET h == net'[Len(net')].body.conversation_history
           kept == WindowKept(messages)
       IN /\ Len(h) <= 10
          /\ Len(h) = Cardinality(kept)
          /\ \A i \in kept :
               LET j == Cardinality({ k \in kept : k <= i })
               IN /\ h[j].role = (IF messages[i].role = "bot" THEN "assistant"
                                  ELSE messages[i].role)
                  /\ h[j].content = messages[i].text
          /\ \A j \in 1..Len(h) : h[j].content \notin { << "" >>, << " " >> }]_vars

\* A chat request is in flight whose history was cut to the window: the
\* greeting is no longer its first entry, a whitespace-only reply of the
\* window is left out, and both roles occur.
C20_WindowCutAndFiltered ==
  /\ Len(net) = 1
  /\ net[1].kind = "chat"
  /\ Len(messages) = HistoryWindow + 2
  /\ \E i \in 2..(HistoryWindow + 1) : i > 1 /\ IsBlank(messages[i].text)
  /\ LET h == net[1].body.conversation_history
     IN /\ Len(h) < HistoryWindow
        /\ h[1].content # GreetingText
        /\ \E j \in 1..Len(h) : h[j].role = "assistant"
        /\ \E j \in 1..Len(h) : h[j].role = "user"

\* The statement the claims expect of one element of a list of ILOs: a
\* string is its own statement, an object gives statement, else text,
\* else content.
StatementOf(e) ==
  IF e.t = "string" THEN e.statement
  ELSE IF e.statement # "" THEN e.statement
  ELSE IF e.text # "" THEN e.text
  ELSE e.content

\* The list of ILOs the claims expect of a decoded body: the bare array, or
\* the array under the first present of the five keys.
ListOf(data) ==
  IF data.kind = "array" THEN data.list
  ELSE IF data.kind = "null" THEN << >>
  ELSE LET present == { i \in 1..Len(KeyOrder) : data.lists[KeyOrder[i]] # << >> }
       IN IF present = {} THEN << >>
          ELSE data.lists[KeyOrder[CHOOSE i \in present : \A j \in present : i <= j]][1]

RECURSIVE StatementsOf(_)
StatementsOf(list) ==
  IF list = << >> THEN << >>
  ELSE (IF StatementOf(Head(list)) = "" THEN << >>
        ELSE << [statement |-> StatementOf(Head(list))] >>) \o StatementsOf(Tail(list))

HasNullElement(data) == \E i \in 1..Len(ListOf(data)) : ListOf(data)[i].t = "null"

\* C21: a 2xx generation response in an accepted shape (bare array of
\* objects or of strings, or such a list under the first present key,
\* strings and objects mixed) whose elements give at least one non-empty
\* statement appends one bot message carrying the list of those
\* statements, in order, and its count.
C21_GenerationNormalized ==
  [][\A a \in NormalizationAnswers :
       (/\ a.status = "200"
        /\ a.parseable
        /\ ~HasNullElement(a.data)
        /\ StatementsOf(ListOf(a.data)) # << >>
        /\ RequestBody(a.kind, a.status, a.parseable, a.data)) =>
         messages' = addMessage(messages, "bot",
                                << "generated ILOs: ",
                                   ToString(Len(StatementsOf(ListOf(a.data)))) >>,
                                StatementsOf(ListOf(a.data)), << >>)]_vars

\* The diagnostic text of a 2xx generation response without valid ILOs.
IsDiagnostic(text) ==
  \/ text = GenFailureText
  \/ Len(text) = 2 /\ text[1] = "generation finished without valid ILOs; response: "

Completion ==
  \/ RequestFetchReject
  \/ \E a \in ConversationAnswers : RequestBody(a.kind, a.status, a.parseable, a.data)

\* An accepted submit: Enter or a suggested question with a text or a
\* pending file while not busy, or a click on the generate button that
\* passes the validation while no generation is in flight.
AcceptedSubmit ==
  \/ PressEnter /\ ~isTyping /\ (Trim(inputValue) # "" \/ uploadedFile # "none")
  \/ ClickSuggestedQuestion /\ ~isTyping
  \/ ClickGenerate /\ ~isGeneratingILOs /\ messages' = messages

\* C23: an accepted submit adds exactly one request to those in flight;
\* requests are added by submits only, never by the handling of a response
\* or of a failure; a request leaves only by its own completion, one at a
\* time, and every other step keeps each request in flight with its body.
C23_OneRequestNoRetryNoCancel ==
  [][/\ AcceptedSubmit =>
          /\ Len(net') = Len(net) + 1
          /\ SubSeq(net', 1, Len(net)) = net
          /\ net'[Len(net')].stage = "fetch"
     /\ Len(net') > Len(net) => AcceptedSubmit
     /\ Len(net') < Len(net) =>
          /\ Completion
          /\ \E i \in 1..Len(net) :
               net' = [j \in 1..(Len(net) - 1) |-> IF j < i THEN net[j] ELSE net[j + 1]]
     /\ Len(net') = Len(net) =>
          \A i \in 1..Len(net) : net'[i].kind = net[i].kind /\ net'[i].body = net[i].body]_vars

\* A chat request was answered with status 500 and a transport failure was
\* reported; afterwards a generation was submitted, and the user typed while
\* it is pending: nothing but that one request is in flight.
C23_PendingAfterFailures ==
  /\ \E i \in 2..Len(messages) : messages[i].text = << "boom" >>
  /\ \E i \in 2..Len(messages) : messages[i].text = ChatFailureText
  /\ Len(net) = 1
  /\ net[1].kind = "generate"
  /\ inputValue = "hi"
  /\ ~isTyping

\* The step belongs to the chat, analyze or generation flow: a submit
\* (accepted, rejected or failing the validation), the settling of a fetch,
\* or the handling of a response or of a failure.
FlowStep ==
  \/ PressEnter
  \/ ClickSuggestedQuestion
  \/ ClickGenerate
  \/ RequestFetchResolve
  \/ Completion

LoadStep(r) == LoadFetchResolve(r) \/ LoadFetchReject(r) \/ LoadBody(r, ListClasses)

ItemsFor(r, b, c) ==
  IF c.ok /\ c.kind = "array" /\ ~c.empty THEN Database(r, b) ELSE << >>

\* C26: when a load that was not superseded completes, the items of its
\* repository are the decoded array if the answer is 2xx and its body an
\* array, and the empty array in every other outcome: non-2xx, object with
\* error, other object, unparseable body, rejected fetch.
C26_LoadStoresArrayOrEmpty ==
  [][\A r \in Repos : \A l \in loads[r] :
       (~l.cancelled /\ loads'[r] = loads[r] \ {l}) =>
         /\ LoadFetchReject(r) => items'[r] = << >>
         /\ \A c \in ListClasses :
              LoadBody(r, {c}) => items'[r] = ItemsFor(r, l.base, c)]_vars

\* The subject list was loaded and its first subject selected, and the
\* load after a change of the base address has completed and left the list
\* empty.
C26_ListEmptiedOnRefresh ==
  /\ apiBase = 1
  /\ selectedSubjectId # Null
  /\ subjects = << >>
  /\ loads["subjects"] = {}
  /\ ~loading["subjects"]

\* C27: the loading flag of a repository is true exactly while the load of
\* its latest cycle is pending: it is set when the load starts, is false
\* once that load has completed in whatever way, also with a superseded
\* load still in flight, and a superseded load that completes does not
\* clear it while the latest load is pending.
C27_LoadingFollowsLatestLoad ==
  \A r \in Repos : loading[r] <=> (\E l \in loads[r] : ~l.cancelled)

\* After a change of the base address the latest load of the categories has
\* completed while the superseded one is still in flight, and the flag is
\* false.
C27_ClearedWithSupersededInFlight ==
  /\ apiBase = 1
  /\ ~loading["iloCategories"]
  /\ \E l \in loads["iloCategories"] : l.cancelled
  /\ ver["iloCategories"] > 0

\* The selection that goes with the subjects and the grade levels.
SelectionOf(r) == IF r = "subjects" THEN selectedSubjectId ELSE selectedGradeLevelId

\* The completions of the loads and the selections, without the clause
\* about the one time: a completion of the subjects or grade levels load
\* that stores a non-empty array while nothing is selected selects the first
\* item of that array; a completion with a selection in place keeps it; no
\* step of the other three loads changes a selection.
DefaultsApplied ==
  /\ \A r \in {"subjects", "gradeLevels"} :
       LoadStep(r) =>
         /\ (SelectionOf(r) = Null /\ \E c \in DefaultLists :
               c.ok /\ c.kind = "array" /\ ~c.empty /\ LoadBody(r, {c}))
              => SelectionOf(r)' = items'[r][1].id
         /\ SelectionOf(r) # Null => SelectionOf(r)' = SelectionOf(r)
  /\ \A q \in {"iloCategories", "iloPatterns", "bloomLevels"} :
       LoadStep(q) => UNCHANGED << selectedSubjectId, selectedGradeLevelId, selectedCategoryId,
                                   selectedBloomLevelId, selectedVerbId >>

\* C28 as stated: the completions set the defaults as above, and the
\* default is applied one time only: the completion of a load that was not
\* superseded sets a selection only when the repository holds no list yet
\* (a repository that holds a list has had its default applied when that
\* list, or an earlier one, arrived).
C28_DefaultAppliedOnce ==
  [][/\ DefaultsApplied
     /\ \A r \in {"subjects", "gradeLevels"} : \A l \in loads[r] :
          (/\ ~l.cancelled
           /\ loads'[r] = loads[r] \ {l}
           /\ LoadStep(r)
           /\ SelectionOf(r) = Null
           /\ SelectionOf(r)' # Null) => items[r] = << >>]_vars

\* C28 amended: the completions set the defaults as above, at every
\* completion that finds nothing selected.
C28_DefaultAppliedWhenUnselected == [][DefaultsApplied]_vars

\* After a change of the base address the new list has arrived and the
\* selection is still the second item of the old list, which the user had
\* picked.
C28_SelectionKeptAcrossRefresh ==
  \E r \in {"subjects", "gradeLevels"} :
    /\ apiBase = 1
    /\ items[r] = Database(r, 1)
    /\ SelectionOf(r) = 2
    /\ loads[r] = {}

\* C29: setting the topic, the subject, the grade or the verb changes that
\* field only: every other field of the selection stays as it was, and no
\* recomputation of the cascade is pending after the step.
C29_DirectAssignments ==
  [][/\ (\E t \in Topics : SetTopic(t)) =>
          /\ UNCHANGED << selectedSubjectId, selectedGradeLevelId, selectedCategoryId,
                          selectedBloomLevelId, availableVerbs, selectedVerbId >>
          /\ EffectsFlushed'
     /\ SetSubject =>
          /\ UNCHANGED << topic, selectedGradeLevelId, selectedCategoryId,
                          selectedBloomLevelId, availableVerbs, selectedVerbId >>
          /\ EffectsFlushed'
     /\ SetGrade =>
          /\ UNCHANGED << topic, selectedSubjectId, selectedCategoryId,
                          selectedBloomLevelId, availableVerbs, selectedVerbId >>
          /\ EffectsFlushed'
     /\ SetVerb =>
          /\ UNCHANGED << topic, selectedSubjectId, selectedGradeLevelId, selectedCategoryId,
                          selectedBloomLevelId, availableVerbs >>
          /\ EffectsFlushed']_vars

\* The user has typed a topic and picked the second subject, the second
\* grade and the second verb of the first Bloom level: the category, the
\* level and its verbs are in place and no effect is pending.
C29_AllFieldsSet ==
  /\ topic = "t"
  /\ selectedSubjectId = 2
  /\ selectedGradeLevelId = 2
  /\ selectedCategoryId = 1
  /\ selectedBloomLevelId = 1
  /\ selectedVerbId = 2
  /\ Len(availableVerbs) = 2
  /\ EffectsFlushed

\* The text the screen shows for an entity of a list or for a verb: the
\* options of the subject and grade selects, the category cards, the Bloom
\* level and verb options and the templates of a category.
ShownText(r, entity) ==
  CASE r = "subjects"      -> getSubjectName(entity, "zh_HK")
    [] r = "gradeLevels"   -> getGradeLevelName(entity, "zh_HK")
    [] r = "iloCategories" -> entity.name
    [] r = "iloPatterns"   -> getPatternStatement(entity, "zh_HK")
    [] r = "bloomLevels"   -> getBloomLevelName(entity, "zh_HK")
    [] r = "availableVerbs" -> getVerbName(entity, "zh_HK")

TextField(r) == IF r = "iloPatterns" THEN "statement" ELSE "name"

\* The translation a locale stands for: of those with its lang_code the one
\* with the latest updated_at, the first of them in the array.
ChosenFor(translation, langCode) ==
  LET hits == { i \in 1..Len(translation) : translation[i].lang_code = langCode }
  IN { i \in hits : \A j \in hits :
         \/ translation[j].updated_at < translation[i].updated_at
         \/ translation[j].updated_at = translation[i].updated_at /\ i <= j }

\* The four-tier fallback: the first non-empty text of the locales
\* [preferred, zh_HK, en_US, zh_CN], else the text of the first translation,
\* else the text of the entity itself, else "".
FourTier(entity, preferred, field) ==
  LET translation == IF "translation" \in DOMAIN entity THEN entity.translation ELSE << >>
      chain == << preferred, "zh_HK", "en_US", "zh_CN" >>
      textOf(k) == IF ChosenFor(translation, chain[k]) = {} THEN ""
                   ELSE translation[CHOOSE i \in ChosenFor(translation, chain[k]) : TRUE][field]
      yielding == { k \in 1..Len(chain) : textOf(k) # "" }
  IN IF yielding # {} THEN textOf(CHOOSE k \in yielding : \A j \in yielding : k <= j)
     ELSE IF Len(translation) > 0 /\ translation[1][field] # "" THEN translation[1][field]
     ELSE entity[field]

\* The four-tier text of the entity with that id, "" when the id is unset.
FourTierOfSelected(id, list) ==
  IF id = Null \/ FindById(list, id) = << >> THEN ""
  ELSE FourTier(FindById(list, id)[1], "zh_HK", "name")

\* C30: for every kind of entity (subject, grade level, Bloom level, verb,
\* pattern, category) the text shown, and the text sent with a generation
\* request, is the four-tier fallback of the entity.
C30_FourTierFallback ==
  /\ [](/\ \A r \in Repos : \A i \in 1..Len(items[r]) :
             ShownText(r, items[r][i]) = FourTier(items[r][i], "zh_HK", TextField(r))
        /\ \A i \in 1..Len(availableVerbs) :
             ShownText("availableVerbs", availableVerbs[i]) = FourTier(availableVerbs[i], "zh_HK", "name"))
  /\ [][(ClickGenerate /\ Ready) =>
          LET body == net'[Len(net')].body
          IN /\ body.subject = FourTierOfSelected(selectedSubjectId, subjects)
             /\ body.grade = FourTierOfSelected(selectedGradeLevelId, gradeLevels)
             /\ body.category = FourTierOfSelected(selectedCategoryId, iloCategories)
             /\ body.bloom_level = FourTierOfSelected(selectedBloomLevelId, bloomLevels)
             /\ body.action_verb = FourTierOfSelected(selectedVerbId, availableVerbs)]_vars

\* A locale of the order the resolvers try has more than one translation in
\* the entity.
HasRepeatedLocale(entity) ==
  /\ "translation" \in DOMAIN entity
  /\ \E i, j \in 1..Len(entity.translation) :
       /\ i < j
       /\ entity.translation[i].lang_code = entity.translation[j].lang_code
       /\ entity.translation[i].lang_code \in {"zh_HK", "en_US", "zh_CN"}

\* C31: for the entities the resolvers serve (subjects, grade levels, Bloom
\* levels, verbs, patterns), when a locale has more than one translation the
\* resolver goes by the one with the latest updated_at (none counts as the
\* earliest, the first of equals wins), wherever it stands in the array.
C31_LatestTranslationChosen ==
  /\ \A r \in Repos \ {"iloCategories"} : \A i \in 1..Len(items[r]) :
       HasRepeatedLocale(items[r][i]) =>
         ShownText(r, items[r][i]) = FourTier(items[r][i], "zh_HK", TextField(r))
  /\ \A i \in 1..Len(availableVerbs) :
       HasRepeatedLocale(availableVerbs[i]) =>
         ShownText("availableVerbs", availableVerbs[i])
           = FourTier(availableVerbs[i], "zh_HK", "name")

\* C32: the conversation_history of a chat request is taken from the
\* history with the submitted user message already appended: its last entry
\* is the message being sent, and its entries are the non-blank messages
\* among the last 10 of that history.
C32_HistoryIncludesSubmitted ==
  [][Issued("chat") =>
       LET h == net'[Len(net')].body.conversation_history
           kept == WindowKept(messages')
       IN /\ Len(h) > 0
          /\ h[Len(h)] = [role |-> "user", content |-> messages'[Len(messages')].text]
          /\ Len(h) = Cardinality(kept)
          /\ \A i \in kept :
               h[Cardinality({ k \in kept : k <= i })].content = messages'[i].text]_vars

\* C33: while a chat or analyze request is in flight isTyping is set, and
\* while a generation request is in flight isGeneratingILOs is set.
C33_PendingImpliesBusy ==
  \A i \in 1..Len(net) :
    /\ net[i].kind \in {"chat", "analyze"} => isTyping
    /\ net[i].kind = "generate" => isGeneratingILOs

\* An analyze request and a generation request are in flight together,
\* the response of the first has arrived and its body is being read, and
\* both flags are set.
C33_TwoFlowsPending ==
  \E i, j \in 1..Len(net) :
    /\ net[i].kind = "analyze"
    /\ net[i].stage # "fetch"
    /\ net[j].kind = "generate"
    /\ isTyping
    /\ isGeneratingILOs

\* C34: no analyze request is issued while a chat request is in flight and
\* no chat request while an analyze request is in flight; a submit (Enter
\* or a suggested question) made with a pending file while isTyping is set
\* issues no request and leaves the pending file in place.
C34_ChatAndAnalyzeExclusive ==
  [][/\ InFlight(net, {"chat"}) > 0 => ~Issued("analyze")
     /\ InFlight(net, {"analyze"}) > 0 => ~Issued("chat")
     /\ (isTyping /\ uploadedFile # "none" /\ (PressEnter \/ ClickSuggestedQuestion)) =>
          UNCHANGED << net, uploadedFile, messages >>]_vars

\* A chat request is in flight, a file has been attached since and a text
\* typed: the submit that would analyze the file is possible and refused.
C34_FilePendingWhileChatting ==
  /\ InFlight(net, {"chat"}) > 0
  /\ isTyping
  /\ uploadedFile # "none"
  /\ inputValue = "hi"
  /\ ENABLED PressEnter

\* One user message with the typed text is appended and one chat request
\* carrying it is issued.
TypedTextSubmitted ==
  /\ messages' = Append(messages, messages'[Len(messages')])
  /\ messages'[Len(messages')].role = "user"
  /\ messages'[Len(messages')].text = << Trim(inputValue) >>
  /\ net' = Append(net, net'[Len(net')])
  /\ net'[Len(net')].kind = "chat"
  /\ net'[Len(net')].body.message = Trim(inputValue)

\* C35: with a non-blank input, no pending file and nothing in progress,
\* Enter and the send button both append one user message with the input
\* text and issue one request.
C35_SendButtonLikeEnter ==
  (/\ ~isTyping
   /\ Trim(inputValue) # ""
   /\ uploadedFile = "none"
   /\ EffectsFlushed
   /\ SubmitBounded) =>
     /\ ENABLED (PressEnter /\ TypedTextSubmitted)
     /\ ENABLED (ClickSend /\ TypedTextSubmitted)

\* C36: whenever the generate button is enabled a click passes the
\* validation of generateILOs and issues a request, and the button is
\* enabled in exactly the states the validation accepts (nothing being
\* generated).
C36_GateMatchesValidation ==
  /\ (/\ ~GenerateDisabled
      /\ EffectsFlushed
      /\ Len(messages) < MaxGenMsgs
      /\ Len(net) < MaxInflight) => ENABLED (ClickGenerate /\ Issued("generate"))
  /\ ~isGeneratingILOs =>
       (~GenerateDisabled <=>
          GenerateValidation(topic, selectedCategoryId, iloCategories,
                             selectedBloomLevelId, selectedVerbId) = "ok")

\* The id is unset or the id of an item of the list.
UnsetOrIn(id, list) == id = Null \/ \E i \in 1..Len(list) : list[i].id = id

\* C37: each selected id (subject, grade level, category, Bloom level) is
\* unset or the id of an item its repository holds now, also after the
\* repository was loaded again with another or an empty list.
C37_SelectionsInLists ==
  /\ UnsetOrIn(selectedSubjectId, subjects)
  /\ UnsetOrIn(selectedGradeLevelId, gradeLevels)
  /\ UnsetOrIn(selectedCategoryId, iloCategories)
  /\ UnsetOrIn(selectedBloomLevelId, bloomLevels)

\* C38: a verb the user has chosen changes only when the user chooses
\* another one, when the Bloom effect runs for a changed Bloom level, or
\* when a category without show_bloom_taxonomy is selected; a write of the
\* Bloom level list that leaves the selected level in it with the verbs on
\* offer does not change it.
C38_ChosenVerbKept ==
  [][(/\ selectedVerbId # Null
      /\ selectedVerbId' # selectedVerbId
      /\ LET level == FindById(bloomLevels, selectedBloomLevelId)
         IN level # << >> /\ level[1].bloom_taxonomy_verbs = availableVerbs) =>
       \/ SetVerb
       \/ bloomDeps.id # selectedBloomLevelId
       \/ CategoryEffectClears(selectedCategoryId, iloCategories)]_vars

\* The response has no matching action: it answers a generation, is not 2xx,
\* has no parseable JSON object, no actions array, or an actions array
\* without a show_pattern element that carries payload.patterns.
NoMatchingAction(a) ==
  \/ a.kind = "generate"
  \/ a.status # "200"
  \/ ~a.parseable
  \/ (a.kind = "analyze" /\ a.data.isNull)
  \/ a.data.actions = << >>
  \/ \A k \in 1..Len(a.data.actions[1]) :
       \/ a.data.actions[1][k].isNull
       \/ a.data.actions[1][k].action_type # "show_pattern"
       \/ a.data.actions[1][k].patterns = << >>

\* C39: a transport failure and every response without a matching action
\* (generation, non-2xx, no actions array, no show_pattern element with
\* payload.patterns) leave the active directive as it is.
C39_DirectiveKept ==
  [][(\/ RequestFetchReject
      \/ \E a \in DirectiveAnswers :
           NoMatchingAction(a) /\ RequestBody(a.kind, a.status, a.parseable, a.data)) =>
       UNCHANGED actionTemplates]_vars

\* A directive is active and the last response handled was a non-2xx chat
\* answer without text.
C39_DirectiveSurvivesError ==
  /\ actionTemplates # << >>
  /\ net = << >>
  /\ messages[Len(messages)].role = "bot"
  /\ messages[Len(messages)].text = << "server error: ", HttpText("500") >>

\* The selected category id is set and no element of the category list
\* has it.
CategoryNotInList ==
  /\ selectedCategoryId # Null
  /\ \A i \in 1..Len(iloCategories) : iloCategories[i].id # selectedCategoryId

\* C40: with a non-blank topic and a selected category id that is not in
\* the category list, a click on the generate button appends the
\* invalid-category message, issues no request and leaves isGeneratingILOs
\* false.
C40_StaleCategoryReported ==
  [][(ClickGenerate /\ CategoryNotInList /\ Trim(topic) # "") =>
       /\ Len(messages') = Len(messages) + 1
       /\ messages'[Len(messages')].role = "bot"
       /\ messages'[Len(messages')].text = << "select a valid ILO category first" >>
       /\ net' = net
       /\ ~isGeneratingILOs']_vars

\* After the category list was loaded again the selected category is not in
\* it, and the last message is the invalid-category message.
C40_ReportedAfterRefresh ==
  /\ apiBase > 0
  /\ CategoryNotInList
  /\ Trim(topic) # ""
  /\ Len(messages) > 1
  /\ messages[Len(messages)].role = "bot"
  /\ messages[Len(messages)].text = << "select a valid ILO category first" >>
  /\ net = << >>
  /\ ~isGeneratingILOs

====
